---- MODULE Spec2Model ----
(***************************************************************************)
(* Atomic-chess position core of seer-nnue: board, move, forward(),        *)
(* is_legal() and generate_moves() of src/src/chess/board.cc, played as a  *)
(* game tree from a small set of root positions.                           *)
(***************************************************************************)
EXTENDS Integers, Sequences, FiniteSets, TLC

(* ---------------------------------------------------------------------- *)
(* Squares: index = rank*8 + x, x = 7 - file (h-file is x = 0).            *)
(* ---------------------------------------------------------------------- *)
Sq == 0 .. 63

X(s) == s % 8
Rk(s) == s \div 8
At(x, r) == r * 8 + x
OnBoard(x, r) == x >= 0 /\ x <= 7 /\ r >= 0 /\ r <= 7

white == TRUE
black == FALSE
Colors == {white, black}
opponent(c) == ~c

pawn == 0
knight == 1
bishop == 2
rook == 3
queen == 4
king == 5
PieceTypes == pawn .. king

KingDeltas == {<<1, 0>>, <<1, 1>>, <<0, 1>>, <<-1, 1>>, <<-1, 0>>, <<-1, -1>>, <<0, -1>>, <<1, -1>>}
KnightDeltas == {<<1, 2>>, <<2, 1>>, <<2, -1>>, <<1, -2>>, <<-1, -2>>, <<-2, -1>>, <<-2, 1>>, <<-1, 2>>}
BishopDirs == {<<1, 1>>, <<-1, 1>>, <<-1, -1>>, <<1, -1>>}
RookDirs == {<<1, 0>>, <<0, 1>>, <<-1, 0>>, <<0, -1>>}

Step(s, d) == {At(X(s) + d[1], Rk(s) + d[2]) : dd \in {e \in {d} : OnBoard(X(s) + e[1], Rk(s) + e[2])}}

king_attack_tbl == [s \in Sq |-> UNION {Step(s, d) : d \in KingDeltas}]
knight_attack_tbl == [s \in Sq |-> UNION {Step(s, d) : d \in KnightDeltas}]

\* pawn_attack_tbl<c>: the squares a pawn of colour c standing on s attacks
pawn_attack_tbl == [c \in Colors |-> [s \in Sq |->
    Step(s, <<1, IF c THEN 1 ELSE -1>>) \cup Step(s, <<-1, IF c THEN 1 ELSE -1>>)]]

\* the squares of the ray leaving s in direction d, nearest first
RayLen(s, d) == CHOOSE n \in 0 .. 7 :
    /\ \A k \in 1 .. n : OnBoard(X(s) + k * d[1], Rk(s) + k * d[2])
    /\ ~OnBoard(X(s) + (n + 1) * d[1], Rk(s) + (n + 1) * d[2])
Ray == [s \in Sq |-> [d \in BishopDirs \cup RookDirs |->
    [k \in 1 .. RayLen(s, d) |-> At(X(s) + k * d[1], Rk(s) + k * d[2])]]]

\* sliding attacks along one ray: every square up to and including the first blocker
RayAttack(s, d, occ) ==
    LET r == Ray[s][d]
    IN {r[k] : k \in {j \in 1 .. Len(r) : \A i \in 1 .. (j - 1) : r[i] \notin occ}}

bishop_attack_tbl(s, occ) == UNION {RayAttack(s, d, occ) : d \in BishopDirs}
rook_attack_tbl(s, occ) == UNION {RayAttack(s, d, occ) : d \in RookDirs}

start_rank(c) == IF c THEN 1 ELSE 6
double_rank(c) == IF c THEN 3 ELSE 4
last_rank(c) == IF c THEN 7 ELSE 0

\* pawn_push_tbl<c>: single push if free, double push from the start rank if both free
pawn_push_tbl(c, s, occ) ==
    LET dr == IF c THEN 1 ELSE -1
        one == Step(s, <<0, dr>>) \ occ
        two == IF one # {} /\ Rk(s) = start_rank(c) THEN Step(s, <<0, 2 * dr>>) \ occ ELSE {}
    IN one \cup two

item(S) == CHOOSE s \in S : \A t \in S : s <= t

(* ---------------------------------------------------------------------- *)
(* castle_info<c>                                                          *)
(* ---------------------------------------------------------------------- *)
HomeRank(c) == IF c THEN 0 ELSE 7
start_king(c) == At(3, HomeRank(c))
oo_rook(c) == At(0, HomeRank(c))
ooo_rook(c) == At(7, HomeRank(c))
after_oo_king(c) == At(1, HomeRank(c))
after_oo_rook(c) == At(2, HomeRank(c))
after_ooo_king(c) == At(5, HomeRank(c))
after_ooo_rook(c) == At(4, HomeRank(c))
oo_mask(c) == {At(2, HomeRank(c)), At(1, HomeRank(c))}
ooo_danger_mask(c) == {At(4, HomeRank(c)), At(5, HomeRank(c))}
ooo_occ_mask(c) == {At(4, HomeRank(c)), At(5, HomeRank(c)), At(6, HomeRank(c))}

(* ---------------------------------------------------------------------- *)
(* move: from, to, piece, capture flag, captured type, en-passant flag,    *)
(* en-passant capture square, promotion type                               *)
(* ---------------------------------------------------------------------- *)
Move(f, t, p, cap, capd, ep, epsq, promo) ==
    [from |-> f, to |-> t, piece |-> p, is_capture |-> cap, captured |-> capd,
     is_enpassant |-> ep, enpassant_sq |-> epsq, promotion |-> promo]
QuietMove(f, t, p) == Move(f, t, p, FALSE, pawn, FALSE, 0, pawn)
CaptureMove(f, t, p, capd) == Move(f, t, p, TRUE, capd, FALSE, 0, pawn)
null == QuietMove(0, 0, pawn)

is_null(mv) == mv = null
is_castle_oo(c, mv) == mv.piece = king /\ mv.from = start_king(c) /\ mv.to = oo_rook(c)
is_castle_ooo(c, mv) == mv.piece = king /\ mv.from = start_king(c) /\ mv.to = ooo_rook(c)
is_promotion_(c, mv) == mv.piece = pawn /\ Rk(mv.to) = last_rank(c)
is_promotion(mv) == is_promotion_(white, mv) \/ is_promotion_(black, mv)
is_pawn_double(c, mv) == mv.piece = pawn /\ Rk(mv.from) = start_rank(c) /\ Rk(mv.to) = double_rank(c)
\* captures and queen promotions are noisy; under-promotions, capturing or not, are quiet
is_noisy(mv) ==
    IF is_promotion(mv) THEN mv.promotion = queen ELSE (mv.is_capture \/ mv.is_enpassant)

(* ---------------------------------------------------------------------- *)
(* board: manifest (piece planes per colour) and latent state              *)
(* ---------------------------------------------------------------------- *)
all(m) == UNION {m[pt] : pt \in PieceTypes}
occ(m, s) == IF \E pt \in PieceTypes : s \in m[pt] THEN CHOOSE pt \in PieceTypes : s \in m[pt] ELSE pawn
add_piece(m, pt, s) == [m EXCEPT ![pt] = @ \cup {s}]
remove_piece(m, pt, s) == [m EXCEPT ![pt] = @ \ {s}]

turn(b) == b.ply_count % 2 = 0
Occupied(b) == all(b.man[white]) \cup all(b.man[black])
HasKing(b, c) == b.man[c][king] # {}
KingSq(b, c) == item(b.man[c][king])

explosion_mask(center) == king_attack_tbl[center] \cup {center}

\* squares holding a non-king piece of colour attacker that attacks tgt
attack_to(b, attacker, tgt, occ_) ==
    LET a == b.man[attacker]
    IN (pawn_attack_tbl[opponent(attacker)][tgt] \cap a[pawn])
       \cup (knight_attack_tbl[tgt] \cap a[knight])
       \cup (bishop_attack_tbl(tgt, occ_) \cap (a[bishop] \cup a[queen]))
       \cup (rook_attack_tbl(tgt, occ_) \cap (a[rook] \cup a[queen]))

\* std::get<0>(checkers<c>(occ)): the enemy pieces giving direct check to c's king
checkers(b, c, occ_) ==
    IF ~HasKing(b, c) THEN {}
    ELSE LET k == KingSq(b, c)
             t == b.man[opponent(c)]
             b_check_mask == bishop_attack_tbl(k, occ_)
             r_check_mask == rook_attack_tbl(k, occ_)
         IN ((b_check_mask \cap t[bishop] \cap occ_)
             \cup (r_check_mask \cap t[rook] \cap occ_)
             \cup (knight_attack_tbl[k] \cap t[knight] \cap occ_)
             \cup (pawn_attack_tbl[c][k] \cap t[pawn] \cap occ_)
             \cup ((b_check_mask \cup r_check_mask) \cap t[queen] \cap occ_))

(* ---------------------------------------------------------------------- *)
(* board::forward_<c>                                                      *)
(* ---------------------------------------------------------------------- *)
BlastTypes == {knight, bishop, rook, queen, king}

\* a variant in which the blast takes pawns too
remove_blast_with_pawns(m, blast) == [pt \in PieceTypes |-> m[pt] \ blast]

\* remove every knight, bishop, rook, queen and king standing in the blast
remove_blast(m, blast) == [pt \in PieceTypes |-> IF pt \in BlastTypes THEN m[pt] \ blast ELSE m[pt]]

\* the square of the pawn an en-passant capture to square to_ takes
ep_capture_sq(c, to_) == item(pawn_push_tbl(opponent(c), to_, {}))

\* a variant that leaves the opponent's en-passant mask as it was
them_ep_mask_kept(b, o) == b.lat[o].ep_mask

\* copy.lat_.them<c>().clear_ep_mask(): the opponent's en-passant mask after a move
them_ep_mask_after(b, o) == {}

\* a variant that takes every rook to be on its home square
rook_at_home_always(m, sq) == TRUE

\* man.rook().is_member(sq) in the closing test of the castling rights
rook_at_home(m, sq) == sq \in m[rook]

forward_(b, c, mv) ==
    IF is_null(mv)
    THEN [b EXCEPT !.ply_count = @ + 1, !.half_clock = @ + 1]
    ELSE
    LET o == opponent(c)
        is_castle_q == is_castle_ooo(c, mv)
        is_castle_k == is_castle_oo(c, mv)
        placed_piece == IF ~is_castle_q /\ ~is_castle_k /\ is_promotion_(c, mv) THEN mv.promotion ELSE mv.piece
        us0 == remove_piece(b.man[c], mv.piece, mv.from)
        us1 == IF is_castle_q
               THEN add_piece(add_piece(remove_piece(us0, rook, ooo_rook(c)), king, after_ooo_king(c)), rook, after_ooo_rook(c))
               ELSE IF is_castle_k
               THEN add_piece(add_piece(remove_piece(us0, rook, oo_rook(c)), king, after_oo_king(c)), rook, after_oo_rook(c))
               ELSE add_piece(us0, placed_piece, mv.to)
        ep == ep_capture_sq(c, mv.to)
        ep1 == IF is_pawn_double(c, mv) /\ (b.man[o][pawn] \cap pawn_attack_tbl[c][ep]) # {}
               THEN {ep} ELSE b.lat[c].ep_mask
        lost_both == is_castle_q \/ is_castle_k \/ mv.from = start_king(c)
        oo1 == b.lat[c].oo /\ ~lost_both /\ mv.from # oo_rook(c)
        ooo1 == b.lat[c].ooo /\ ~lost_both /\ mv.from # ooo_rook(c)
        capturing == mv.is_capture \/ mv.is_enpassant
        explosion_center == IF mv.is_enpassant THEN mv.enpassant_sq ELSE mv.to
        blast == explosion_mask(explosion_center)
        them1 == IF mv.is_enpassant THEN remove_piece(b.man[o], pawn, mv.enpassant_sq)
                 ELSE remove_piece(b.man[o], mv.captured, mv.to)
        us2 == IF capturing THEN remove_blast(remove_piece(us1, placed_piece, mv.to), blast) ELSE us1
        them2 == IF capturing THEN remove_blast(them1, blast) ELSE b.man[o]
        oo2 == oo1 /\ rook_at_home(us2, oo_rook(c))
        ooo2 == ooo1 /\ rook_at_home(us2, ooo_rook(c))
        t_oo == b.lat[o].oo /\ rook_at_home(them2, oo_rook(o)) /\ mv.to # oo_rook(o)
        t_ooo == b.lat[o].ooo /\ rook_at_home(them2, ooo_rook(o)) /\ mv.to # ooo_rook(o)
    IN [man |-> [x \in Colors |-> IF x = c THEN us2 ELSE them2],
        lat |-> [x \in Colors |-> IF x = c THEN [oo |-> oo2, ooo |-> ooo2, ep_mask |-> ep1]
                                            ELSE [oo |-> t_oo, ooo |-> t_ooo, ep_mask |-> them_ep_mask_after(b, o)]],
        half_clock |-> IF mv.is_capture \/ mv.piece = pawn THEN 0 ELSE b.half_clock + 1,
        ply_count |-> b.ply_count + 1]

forward(b, mv) == forward_(b, turn(b), mv)

(* ---------------------------------------------------------------------- *)
(* board::see_ge_<c, T>, board::see_ge, board::see_gt                       *)
(* ---------------------------------------------------------------------- *)
score_mate == 1000000

\* values[]: pawn, knight, bishop, rook, queen, king
see_values == <<100, 450, 450, 650, 1250, 0>>

see_value(pt) == see_values[pt + 1]

piece_at_unchecked(b, sq) ==
    IF sq \in all(b.man[white]) THEN occ(b.man[white], sq) ELSE occ(b.man[black], sq)

\* the sum of value(piece_at_unchecked(b, sq)) over the squares of a set
boom_value(b, squares) ==
    LET n(pt) == Cardinality({sq \in squares : piece_at_unchecked(b, sq) = pt})
    IN see_value(pawn) * n(pawn) + see_value(knight) * n(knight) + see_value(bishop) * n(bishop)
           + see_value(rook) * n(rook) + see_value(queen) * n(queen) + see_value(king) * n(king)

\* the capture branch
see_capture(b, c, mv) ==
    LET o == opponent(c)
        explosion_center == IF mv.is_enpassant THEN ep_capture_sq(c, mv.to) ELSE mv.to
        pieces_exploded == {mv.to}
        score == IF mv.is_enpassant THEN see_value(pawn) ELSE see_value(mv.captured)
        pawns_all == b.man[white][pawn] \cup b.man[black][pawn]
        explosion_area == explosion_mask(explosion_center) \ pawns_all
        boom == explosion_area \cup pieces_exploded
        boom_us == boom \cap all(b.man[c])
        boom_them == boom \cap all(b.man[o])
    IN IF (boom \cap b.man[c][king]) # {} THEN -score_mate
       ELSE IF (boom \cap b.man[o][king]) # {} THEN score_mate
       ELSE score - boom_value(b, boom_us) + boom_value(b, boom_them)

\* value of the least valuable piece among the capturers, score_mate when there is none
min_attacker(next, capturers) ==
    IF capturers = {} THEN score_mate
    ELSE see_value(piece_at_unchecked(next,
             CHOOSE sq \in capturers : \A other \in capturers :
                 see_value(piece_at_unchecked(next, sq)) <= see_value(piece_at_unchecked(next, other))))

\* the hypothetical recapture blast on mv.to in the position after the move
see_recapture(next, c, mv, attackers, min_attacker_value, boom) ==
    IF attackers = {} THEN 0
    ELSE IF min_attacker_value = score_mate THEN 0
    ELSE IF (boom \cap next.man[c][king]) # {} THEN -score_mate
    ELSE IF (boom \cap next.man[opponent(c)][king]) # {} THEN 0
    ELSE min_attacker_value - see_value(IF is_promotion_(c, mv) THEN mv.promotion ELSE mv.piece)
             - boom_value(next, boom \cap all(next.man[c]))
             + boom_value(next, boom \cap all(next.man[opponent(c)]))

see_quiet_after(next, c, mv, attackers) ==
    see_recapture(next, c, mv, attackers,
                  min_attacker(next, {sq \in attackers : piece_at_unchecked(next, sq) # king}),
                  (explosion_mask(mv.to) \ (next.man[white][pawn] \cup next.man[black][pawn]))
                      \cup {mv.to})

\* the quiet branch: the recapture on mv.to by the least valuable attacker
see_quiet(b, c, mv) ==
    see_quiet_after(forward_(b, c, mv), c, mv,
                    attack_to(forward_(b, c, mv), opponent(c), mv.to, Occupied(forward_(b, c, mv))))

\* the quantity see_ge_ compares with the threshold
see_score(b, c, mv) ==
    LET is_capture == mv.is_capture \/ mv.is_enpassant
        is_castle == is_castle_oo(c, mv) \/ is_castle_ooo(c, mv)
    IN IF is_capture /\ ~is_castle THEN see_capture(b, c, mv)
       ELSE IF is_castle THEN 0
       ELSE see_quiet(b, c, mv)

see_ge_(b, c, mv, threshold) ==
    IF is_null(mv) THEN TRUE ELSE see_score(b, c, mv) >= threshold

see_ge(b, mv, threshold) == see_ge_(b, turn(b), mv, threshold)

\* a variant that compares with the threshold itself
see_gt_same_threshold(b, mv, threshold) == see_ge(b, mv, threshold)

see_gt(b, mv, threshold) == see_ge(b, mv, threshold + 1)

(* ---------------------------------------------------------------------- *)
(* generation modes                                                        *)
(* ---------------------------------------------------------------------- *)
mode_all == [noisy |-> TRUE, quiet |-> TRUE, check |-> TRUE]
mode_noisy_and_check == [noisy |-> TRUE, quiet |-> FALSE, check |-> TRUE]
mode_quiet_and_check == [noisy |-> FALSE, quiet |-> TRUE, check |-> TRUE]
Modes == {mode_all, mode_noisy_and_check, mode_quiet_and_check}

(* ---------------------------------------------------------------------- *)
(* board::is_legal_<c, mode>                                               *)
(* ---------------------------------------------------------------------- *)
\* the test made on the successor position: the mover's king is not the only one to
\* die, and with both kings alive (and apart, when touching kings are exempt) the
\* mover's king is not attacked
survives(next, c, touch_exempt) ==
    /\ ~(~HasKing(next, c) /\ HasKing(next, opponent(c)))
    /\ ((HasKing(next, opponent(c)) /\ HasKing(next, c)
             /\ ~(touch_exempt /\ KingSq(next, opponent(c)) \in king_attack_tbl[KingSq(next, c)]))
            => checkers(next, c, Occupied(next)) = {})

\* a variant of the castling branch without the test of the squares the king crosses
is_legal_castle_no_path(b, c, mv) ==
    LET short_castle == is_castle_oo(c, mv)
        occ_ == Occupied(b)
    IN /\ ~(mv.is_capture \/ mv.is_enpassant \/ is_promotion(mv))
       /\ start_king(c) \in b.man[c][king]
       /\ (IF short_castle THEN oo_rook(c) ELSE ooo_rook(c)) \in b.man[c][rook]
       /\ IF short_castle THEN b.lat[c].oo ELSE b.lat[c].ooo
       /\ ((IF short_castle THEN oo_mask(c) ELSE ooo_occ_mask(c)) \cap occ_) = {}
       /\ checkers(b, c, occ_) = {}
       /\ survives(forward_(b, c, mv), c, FALSE)

\* the castling branch, entered when mv is a king move from start_king to a rook home
is_legal_castle(b, c, mv) ==
    LET short_castle == is_castle_oo(c, mv)
        occ_ == Occupied(b)
        danger_path == IF short_castle THEN oo_mask(c) ELSE ooo_danger_mask(c)
    IN /\ ~(mv.is_capture \/ mv.is_enpassant \/ is_promotion(mv))
       /\ start_king(c) \in b.man[c][king]
       /\ (IF short_castle THEN oo_rook(c) ELSE ooo_rook(c)) \in b.man[c][rook]
       /\ IF short_castle THEN b.lat[c].oo ELSE b.lat[c].ooo
       /\ ((IF short_castle THEN oo_mask(c) ELSE ooo_occ_mask(c)) \cap occ_) = {}
       /\ checkers(b, c, occ_) = {}
       /\ \A sq \in danger_path : attack_to(b, opponent(c), sq, occ_) = {}
       /\ survives(forward_(b, c, mv), c, FALSE)

legal_from_to(b, c, mv) ==
    LET occ_ == Occupied(b)
    IN CASE mv.piece = pawn ->
              IF mv.is_capture THEN mv.to \in pawn_attack_tbl[c][mv.from]
              ELSE mv.to \in pawn_push_tbl(c, mv.from, occ_)
         [] mv.piece = knight -> mv.to \in knight_attack_tbl[mv.from]
         [] mv.piece = bishop -> mv.to \in bishop_attack_tbl(mv.from, occ_)
         [] mv.piece = rook -> mv.to \in rook_attack_tbl(mv.from, occ_)
         [] mv.piece = queen -> mv.to \in (bishop_attack_tbl(mv.from, occ_) \cup rook_attack_tbl(mv.from, occ_))
         [] mv.piece = king -> ~mv.is_capture /\ mv.to \in king_attack_tbl[mv.from]
         [] OTHER -> FALSE

\* a variant that never rejects a capture for its blast
blasts_own_king_never(b, c, mv) == FALSE

\* a variant that tolerates the own king in the blast when the enemy king is in it too
blasts_own_king_unless_both(b, c, mv) ==
    /\ mv.is_capture \/ mv.is_enpassant
    /\ LET explosion_center == IF mv.is_enpassant THEN item(pawn_push_tbl(opponent(c), mv.to, {})) ELSE mv.to
       IN /\ (explosion_mask(explosion_center) \cap b.man[c][king]) # {}
          /\ (explosion_mask(explosion_center) \cap b.man[opponent(c)][king]) = {}

\* the blast of a capture contains the mover's own king
blasts_own_king(b, c, mv) ==
    /\ mv.is_capture \/ mv.is_enpassant
    /\ LET explosion_center == IF mv.is_enpassant THEN ep_capture_sq(c, mv.to) ELSE mv.to
       IN (explosion_mask(explosion_center) \cap b.man[c][king]) # {}

\* a variant without the exemption for touching kings
legal_after_no_touch(b, c, mv) == survives(forward_(b, c, mv), c, FALSE)

\* the survival and direct-check test on the successor position
legal_after(b, c, mv) == survives(forward_(b, c, mv), c, TRUE)

is_legal_(b, c, mode, mv) ==
    /\ HasKing(b, c)
    /\ IF is_castle_oo(c, mv) \/ is_castle_ooo(c, mv)
       THEN is_legal_castle(b, c, mv)
       ELSE LET to_has_enemy == mv.to \in all(b.man[opponent(c)])
            IN /\ mv.from \in all(b.man[c])
               /\ mv.to \notin all(b.man[c])
               /\ mv.piece = occ(b.man[c], mv.from)
               /\ mv.is_capture = (to_has_enemy \/ mv.is_enpassant)
               /\ (~mv.is_capture => mv.captured = pawn)
               /\ ((mv.is_capture /\ ~mv.is_enpassant) =>
                      (to_has_enemy /\ mv.captured = occ(b.man[opponent(c)], mv.to)))
               /\ (~mv.is_enpassant => mv.enpassant_sq = 0)
               /\ (mv.is_enpassant =>
                      /\ mv.to \in b.lat[opponent(c)].ep_mask
                      /\ mv.enpassant_sq = ep_capture_sq(c, mv.to)
                      /\ ep_capture_sq(c, mv.to) \in b.man[opponent(c)][pawn])
               /\ legal_from_to(b, c, mv)
               /\ IF is_promotion(mv)
                  THEN /\ mv.piece = pawn
                       /\ Rk(mv.to) = last_rank(c)
                       /\ mv.promotion >= knight /\ mv.promotion <= queen
                  ELSE ~(mv.piece = pawn /\ Rk(mv.to) = last_rank(c))
               /\ (is_noisy(mv) => mode.noisy)
               /\ (~is_noisy(mv) => mode.quiet)
               /\ ~blasts_own_king(b, c, mv)
               /\ legal_after(b, c, mv)

is_legal(b, mode, mv) == is_legal_(b, turn(b), mode, mv)

(* ---------------------------------------------------------------------- *)
(* board::generate_moves_<c, mode>                                         *)
(* ---------------------------------------------------------------------- *)
PromotionTypes == {queen, knight, bishop, rook}

pseudo_pawn(b, c, from) ==
    LET occ_ == Occupied(b)
        them == b.man[opponent(c)]
        pushes == pawn_push_tbl(c, from, occ_)
        caps == pawn_attack_tbl[c][from] \cap all(them)
        ep_mask == b.lat[opponent(c)].ep_mask
    IN {Move(from, to, pawn, FALSE, pawn, FALSE, 0, pr) :
            to \in {t \in pushes : Rk(t) = last_rank(c)}, pr \in PromotionTypes}
       \cup {QuietMove(from, to, pawn) : to \in {t \in pushes : Rk(t) # last_rank(c)}}
       \cup {Move(from, to, pawn, TRUE, occ(them, to), FALSE, 0, pr) :
            to \in {t \in caps : Rk(t) = last_rank(c)}, pr \in PromotionTypes}
       \cup {CaptureMove(from, to, pawn, occ(them, to)) : to \in {t \in caps : Rk(t) # last_rank(c)}}
       \cup {Move(from, ep_sq, pawn, TRUE, pawn, TRUE, ep_capture_sq(c, ep_sq), pawn) :
            ep_sq \in {e \in ep_mask : e = item(ep_mask) /\ e \in pawn_attack_tbl[c][from]}}

pseudo_piece(b, c, pt, from, mask) ==
    LET them == b.man[opponent(c)]
    IN {IF to \in all(them) THEN CaptureMove(from, to, pt, occ(them, to)) ELSE QuietMove(from, to, pt) :
            to \in mask \ all(b.man[c])}

pseudo_moves(b, c) ==
    LET occ_ == Occupied(b)
        us == b.man[c]
    IN UNION {pseudo_pawn(b, c, from) : from \in us[pawn]}
       \cup UNION {pseudo_piece(b, c, knight, from, knight_attack_tbl[from]) : from \in us[knight]}
       \cup UNION {pseudo_piece(b, c, bishop, from, bishop_attack_tbl(from, occ_)) : from \in us[bishop]}
       \cup UNION {pseudo_piece(b, c, rook, from, rook_attack_tbl(from, occ_)) : from \in us[rook]}
       \cup UNION {pseudo_piece(b, c, queen, from,
                        bishop_attack_tbl(from, occ_) \cup rook_attack_tbl(from, occ_)) : from \in us[queen]}
       \cup {QuietMove(KingSq(b, c), to, king) : to \in king_attack_tbl[KingSq(b, c)] \ occ_}
       \cup (IF b.lat[c].oo /\ (oo_mask(c) \cap occ_) = {}
             THEN {QuietMove(start_king(c), oo_rook(c), king)} ELSE {})
       \cup (IF b.lat[c].ooo /\ (ooo_occ_mask(c) \cap occ_) = {}
             THEN {QuietMove(start_king(c), ooo_rook(c), king)} ELSE {})

generate_moves_(b, c, mode) ==
    IF ~HasKing(b, c) THEN {}
    ELSE {mv \in pseudo_moves(b, c) : is_legal_(b, c, mode, mv)}

generate_moves(b, mode) == generate_moves_(b, turn(b), mode)

(* ---------------------------------------------------------------------- *)
(* check predicates                                                        *)
(* ---------------------------------------------------------------------- *)
\* the captures king_capturable_in_position<attacker> tries
capture_candidates(b, attacker) ==
    LET us == b.man[attacker]
        them == b.man[opponent(attacker)]
        occ_ == Occupied(b)
        ep_mask == b.lat[opponent(attacker)].ep_mask
        caps(pt, from, mask) == {CaptureMove(from, to, pt, occ(them, to)) : to \in mask \cap all(them)}
    IN UNION {caps(pawn, from, pawn_attack_tbl[attacker][from]) : from \in us[pawn]}
       \cup (IF ep_mask = {} THEN {}
             ELSE LET ep_sq == item(ep_mask)
                  IN {Move(from, ep_sq, pawn, TRUE, pawn, TRUE, ep_capture_sq(attacker, ep_sq), pawn) :
                         from \in pawn_attack_tbl[attacker][ep_sq] \cap us[pawn]})
       \cup UNION {caps(knight, from, knight_attack_tbl[from]) : from \in us[knight]}
       \cup UNION {caps(bishop, from, bishop_attack_tbl(from, occ_)) : from \in us[bishop]}
       \cup UNION {caps(rook, from, rook_attack_tbl(from, occ_)) : from \in us[rook]}
       \cup UNION {caps(queen, from, bishop_attack_tbl(from, occ_) \cup rook_attack_tbl(from, occ_)) : from \in us[queen]}

king_capturable_in_position(b, attacker) ==
    /\ HasKing(b, opponent(attacker))
    /\ \E mv \in capture_candidates(b, attacker) :
          LET after == forward_(b, attacker, mv)
          IN ~HasKing(after, opponent(attacker)) /\ HasKing(after, attacker)

\* a variant that centres every blast on the destination square
is_atomic_king_blast_capture_at_to(b, mv) ==
    /\ mv.is_capture \/ mv.is_enpassant
    /\ (explosion_mask(mv.to) \cap b.man[opponent(turn(b))][king]) # {}

is_atomic_king_blast_capture(b, mv) ==
    /\ mv.is_capture \/ mv.is_enpassant
    /\ LET center == IF mv.is_enpassant THEN ep_capture_sq(turn(b), mv.to) ELSE mv.to
       IN (explosion_mask(center) \cap b.man[opponent(turn(b))][king]) # {}

has_atomic_blast_capture_(b, c) ==
    /\ HasKing(b, opponent(c))
    /\ \E t \in explosion_mask(KingSq(b, opponent(c))) \cap all(b.man[opponent(c)]) :
          /\ (explosion_mask(t) \cap b.man[c][king]) = {}
          /\ attack_to(b, c, t, Occupied(b)) # {}

has_atomic_blast_capture(b) == has_atomic_blast_capture_(b, turn(b))
in_atomic_blast_check(b) == has_atomic_blast_capture_(b, opponent(turn(b)))

is_check_(b, c) ==
    IF ~HasKing(b, c) THEN TRUE
    ELSE IF HasKing(b, opponent(c)) /\ KingSq(b, opponent(c)) \in king_attack_tbl[KingSq(b, c)] THEN FALSE
    ELSE king_capturable_in_position(b, opponent(c))

is_check(b) == is_check_(b, turn(b))

has_non_pawn_material(b) ==
    \E pt \in {knight, bishop, rook, queen} : b.man[turn(b)][pt] # {}

(* ---------------------------------------------------------------------- *)
(* root positions (as parse_fen builds them)                               *)
(* ---------------------------------------------------------------------- *)
\* S(file, rank): file 1 = a .. 8 = h, rank 1 .. 8
S(file, rank) == At(8 - file, rank - 1)

Manifest(pieces, c) ==
    [pt \in PieceTypes |-> {p[3] : p \in {q \in pieces : q[1] = c /\ q[2] = pt}}]

NoRights == [oo |-> FALSE, ooo |-> FALSE, ep_mask |-> {}]
Rights(k, q) == [oo |-> k, ooo |-> q, ep_mask |-> {}]

Position(pieces, stm, w_lat, b_lat) ==
    [man |-> [c \in Colors |-> Manifest(pieces, c)],
     lat |-> [c \in Colors |-> IF c THEN w_lat ELSE b_lat],
     half_clock |-> 0,
     ply_count |-> IF stm THEN 0 ELSE 1]

\* 7k/8/8/3p1n2/3p4/8/3KP3/8 w - - 0 1
RootEnPassant ==
    Position({<<white, king, S(4, 2)>>, <<white, pawn, S(5, 2)>>,
              <<black, king, S(8, 8)>>, <<black, pawn, S(4, 4)>>, <<black, pawn, S(4, 5)>>,
              <<black, knight, S(6, 5)>>},
             white, NoRights, NoRights)

\* 4k3/8/8/8/8/6p1/P6P/R3K2R w KQ - 0 1
RootCastle ==
    Position({<<white, king, S(5, 1)>>, <<white, rook, S(1, 1)>>, <<white, rook, S(8, 1)>>,
              <<white, pawn, S(1, 2)>>, <<white, pawn, S(8, 2)>>,
              <<black, king, S(5, 8)>>, <<black, pawn, S(7, 3)>>},
             white, Rights(TRUE, TRUE), NoRights)

\* 8/8/8/3kp3/3K4/r4N2/8/8 w - - 0 1
RootKingsTouch ==
    Position({<<white, king, S(4, 4)>>, <<white, knight, S(6, 3)>>,
              <<black, king, S(4, 5)>>, <<black, pawn, S(5, 5)>>, <<black, rook, S(1, 3)>>},
             white, NoRights, NoRights)

\* 2bk4/1P6/8/8/8/8/8/6K1 w - - 0 1
RootPromotion ==
    Position({<<white, king, S(7, 1)>>, <<white, pawn, S(2, 7)>>,
              <<black, king, S(4, 8)>>, <<black, bishop, S(3, 8)>>},
             white, NoRights, NoRights)

\* r3k3/3p4/8/4P1B1/8/8/8/6K1 b q - 0 1
RootBlack ==
    Position({<<white, king, S(7, 1)>>, <<white, pawn, S(5, 5)>>, <<white, bishop, S(7, 5)>>,
              <<black, king, S(5, 8)>>, <<black, rook, S(1, 8)>>, <<black, pawn, S(4, 7)>>},
             black, NoRights, Rights(FALSE, TRUE))

Roots == {RootEnPassant, RootCastle, RootKingsTouch, RootPromotion, RootBlack}

(* ---------------------------------------------------------------------- *)
(* NNUE feature transformer state: include/eval/nnue.h and nnue/*.h.       *)
(* An accumulator half is the bias plus a sum of weight columns; it is     *)
(* kept as the formal sum, a set of <<feature, multiplicity>> pairs with   *)
(* non-zero multiplicity, so two halves are equal iff they are equal for   *)
(* every choice of weights.                                                *)
(* ---------------------------------------------------------------------- *)
InputSize == 768
ColorStride == 384
PieceStride == 64
MaxSubs == 16
MaxAdds == 4

flip_file_index(idx) == (idx \div 8) * 8 + (7 - (idx % 8))
flip_rank_index(idx) == (7 - (idx \div 8)) * 8 + (idx % 8)
square_index(sq) == flip_file_index(sq)
feature_square_index(sq, perspective) ==
    IF perspective = black THEN flip_rank_index(square_index(sq)) ELSE square_index(sq)

\* KingBuckets<...>::Buckets: one bucket per board quadrant
Buckets(idx) == (IF idx % 8 >= 4 THEN 1 ELSE 0) + (IF idx \div 8 >= 4 THEN 2 ELSE 0)
BucketCount == 4

getBucket(c, kingSq) ==
    Buckets(IF c = black THEN flip_rank_index(square_index(kingSq)) ELSE square_index(kingSq))

refreshRequired(c, prevKingSq, kingSq) ==
    LET prv == IF c = black THEN flip_rank_index(square_index(prevKingSq)) ELSE square_index(prevKingSq)
        nxt == IF c = black THEN flip_rank_index(square_index(kingSq)) ELSE square_index(kingSq)
    IN Buckets(prv) # Buckets(nxt)

featureIndex(perspective, pieceColor, piece, sq, king_sq) ==
    getBucket(perspective, king_sq) * InputSize
        + (IF pieceColor = perspective THEN 0 ELSE 1) * ColorStride
        + piece * PieceStride
        + feature_square_index(sq, perspective)

\* Accumulator::initBoth for one perspective: the bias alone
biases == {}

coefficient(half, feature) ==
    IF \E p \in half : p[1] = feature THEN (CHOOSE p \in half : p[1] = feature)[2] ELSE 0

occurrences(feats, feature) == Cardinality({i \in DOMAIN feats : feats[i] = feature})

\* src plus the columns of adds minus the columns of subs
plus(src, adds, subs) ==
    LET touched == {p[1] : p \in src} \cup {adds[i] : i \in DOMAIN adds}
                       \cup {subs[i] : i \in DOMAIN subs}
        sum == {<<f, coefficient(src, f) + occurrences(adds, f) - occurrences(subs, f)>> :
                   f \in touched}
    IN {p \in sum : p[2] # 0}

activateFeature(half, feature) == plus(half, <<feature>>, <<>>)
deactivateFeature(half, feature) == plus(half, <<>>, <<feature>>)
subAddFrom(src, sub, add) == plus(src, <<add>>, <<sub>>)
subFrom(src, subs) == plus(src, <<>>, subs)
subSubAddFrom(src, sub0, sub1, add) == plus(src, <<add>>, <<sub0, sub1>>)
subSubAddAddFrom(src, sub0, sub1, add0, add1) == plus(src, <<add0, add1>>, <<sub0, sub1>>)

\* a run of activateFeature calls
activateAll(half, feats) == plus(half, feats, <<>>)

\* BitboardSet::from_board and forPiece
from_board(b) == b.man
forPiece(bbs, pt, pieceColor) == bbs[pieceColor][pt]
empty_bbs == [c \in Colors |-> [pt \in PieceTypes |-> {}]]

\* iteration order of "for pieceColor in {first, second}; over_types; for sq in plane"
piece_rank(first, ps) == (IF ps.color = first THEN 0 ELSE 1) * ColorStride + ps.piece * PieceStride + ps.square

in_order(first, entries) ==
    [i \in 1 .. Cardinality(entries) |->
        CHOOSE x \in entries :
            Cardinality({y \in entries : piece_rank(first, y) < piece_rank(first, x)}) = i - 1]

PieceSquares(bbs) ==
    UNION {{[color |-> c, piece |-> pt, square |-> sq] : sq \in bbs[c][pt]} : c \in Colors, pt \in PieceTypes}

features_of(c, entries, king_sq) ==
    [i \in 1 .. Len(entries) |->
        featureIndex(c, entries[i].color, entries[i].piece, entries[i].square, king_sq)]

resetAccumulator(half, c, bbs, king_sq) ==
    activateAll(half, features_of(c, in_order(black, PieceSquares(bbs)), king_sq))

\* a refresh that only activates the added pieces and never deactivates the pieces that
\* left the cached boards
refreshAccumulator_added_only(table, c, bbs, king_sq) ==
    LET bucket == getBucket(c, king_sq)
        rtEntry == table[bucket]
        added == PieceSquares(bbs) \ PieceSquares(rtEntry.bbs[c])
        half == plus(rtEntry.accumulator[c], features_of(c, in_order(black, added), king_sq), <<>>)
    IN [half |-> half,
        table |-> [table EXCEPT ![bucket] =
                      [accumulator |-> [rtEntry.accumulator EXCEPT ![c] = half],
                       bbs |-> [rtEntry.bbs EXCEPT ![c] = bbs]]]]

\* refreshAccumulator: the table entry's half for c is moved from its cached boards to
\* bbs, copied into the live accumulator, and the cache is set to bbs
refreshAccumulator(table, c, bbs, king_sq) ==
    LET bucket == getBucket(c, king_sq)
        rtEntry == table[bucket]
        prevBoards == rtEntry.bbs[c]
        added == PieceSquares(bbs) \ PieceSquares(prevBoards)
        removed == PieceSquares(prevBoards) \ PieceSquares(bbs)
        half == plus(rtEntry.accumulator[c],
                     features_of(c, in_order(black, added), king_sq),
                     features_of(c, in_order(black, removed), king_sq))
    IN [half |-> half,
        table |-> [table EXCEPT ![bucket] =
                      [accumulator |-> [rtEntry.accumulator EXCEPT ![c] = half],
                       bbs |-> [rtEntry.bbs EXCEPT ![c] = bbs]]]]

\* RefreshTable::init
init_table ==
    [bucket \in 0 .. BucketCount - 1 |->
        [accumulator |-> [c \in Colors |-> biases], bbs |-> [c \in Colors |-> empty_bbs]]]

\* updates that remove every piece of the old position and add every piece of the new one
buildUpdates_rebuild(before, after, prevBlackKing, prevWhiteKing, nextBlackKing, nextWhiteKing) ==
    [refresh |-> [c \in Colors |->
                     IF c = black THEN refreshRequired(black, prevBlackKing, nextBlackKing)
                     ELSE refreshRequired(white, prevWhiteKing, nextWhiteKing)],
     sub |-> in_order(white, PieceSquares(before.man)),
     add |-> in_order(white, PieceSquares(after.man))]

\* buildUpdates(before, after) with the four king squares it reads
buildUpdates(before, after, prevBlackKing, prevWhiteKing, nextBlackKing, nextWhiteKing) ==
    [refresh |-> [c \in Colors |->
                     IF c = black THEN refreshRequired(black, prevBlackKing, nextBlackKing)
                     ELSE refreshRequired(white, prevWhiteKing, nextWhiteKing)],
     sub |-> in_order(white, PieceSquares(before.man) \ PieceSquares(after.man)),
     add |-> in_order(white, PieceSquares(after.man) \ PieceSquares(before.man))]

\* one perspective of NnueState::update: the new half and the refresh table after it
update_color(curr, table, c, updates, bbs, king_sq) ==
    LET subCount == Len(updates.sub)
        addCount == Len(updates.add)
        subs == features_of(c, updates.sub, king_sq)
        adds == features_of(c, updates.add, king_sq)
    IN IF updates.refresh[c] THEN refreshAccumulator(table, c, bbs, king_sq)
       ELSE [table |-> table,
             half |->
                IF addCount = 0 /\ subCount = 0 THEN curr[c]
                ELSE IF addCount = 0 /\ subCount > 0 THEN subFrom(curr[c], subs)
                ELSE IF addCount = 1 /\ subCount = 1 THEN subAddFrom(curr[c], subs[1], adds[1])
                ELSE IF addCount = 1 /\ subCount = 2
                THEN subSubAddFrom(curr[c], subs[1], subs[2], adds[1])
                ELSE IF addCount = 2 /\ subCount = 2
                THEN subSubAddAddFrom(curr[c], subs[1], subs[2], adds[1], adds[2])
                ELSE plus(curr[c], adds, subs)]

\* NnueState::update<true>: black first, then white; the result is the accumulator
\* written to curr_ + 1 and the refresh table
update(curr, table, updates, b, blackKing, whiteKing) ==
    LET bbs == from_board(b)
        blk == update_color(curr, table, black, updates, bbs, blackKing)
        wht == update_color(curr, blk.table, white, updates, bbs, whiteKing)
    IN [accumulator |-> [c \in Colors |-> IF c = black THEN blk.half ELSE wht.half],
        table |-> wht.table]

\* a reset that fills the entry's half but leaves the entry's cached boards empty
reset_color_stale_cache(table, c, bbs, king_sq) ==
    LET bucket == getBucket(c, king_sq)
        half == resetAccumulator(table[bucket].accumulator[c], c, bbs, king_sq)
    IN [half |-> half,
        table |-> [table EXCEPT ![bucket] =
                      [accumulator |-> [table[bucket].accumulator EXCEPT ![c] = half],
                       bbs |-> table[bucket].bbs]]]

\* NnueState::reset: the accumulator written to accumulatorStack_[0] and the table
reset_color(table, c, bbs, king_sq) ==
    LET bucket == getBucket(c, king_sq)
        half == resetAccumulator(table[bucket].accumulator[c], c, bbs, king_sq)
    IN [half |-> half,
        table |-> [table EXCEPT ![bucket] =
                      [accumulator |-> [table[bucket].accumulator EXCEPT ![c] = half],
                       bbs |-> [table[bucket].bbs EXCEPT ![c] = bbs]]]]

reset(b) ==
    LET bbs == from_board(b)
        blk == reset_color(init_table, black, bbs, KingSq(b, black))
        wht == reset_color(blk.table, white, bbs, KingSq(b, white))
    IN [accumulator |-> [c \in Colors |-> IF c = black THEN blk.half ELSE wht.half],
        table |-> wht.table]

\* king().item() of a plane: the king's square; item() of an empty square_set is
\* undefined, and the square it yields matters to the callers only through its bucket,
\* so one square of every bucket stands for the values it can take
BucketCorners == {At(0, 0), At(7, 0), At(0, 7), At(7, 7)}
king_item(b, c) == IF HasKing(b, c) THEN {KingSq(b, c)} ELSE BucketCorners

(* ---------------------------------------------------------------------- *)
(* the game tree walked by the search: forward() of generated moves        *)
(* ---------------------------------------------------------------------- *)
MaxPly == 3

VARIABLES bd, prev, played, depth
\* the search worker: call stack of pv_search / q_search, NnueState (accumulatorStack_
\* up to curr_, refreshTable_) and a record of the last NnueState::update call
VARIABLES ss, accumulatorStack_, refreshTable_, last_update
\* iterative deepening: position of the loop, the stop flag and the published result
VARIABLES id_loop
\* NnueState driven through its own interface: the index of curr_ in accumulatorStack_
VARIABLES curr_
\* the stop flag internal.go and the record of the stores made by pv_search and q_search
VARIABLES go, tt
\* the training data generator: atomic_data_writer, dedup_cache, the generator threads
\* and the self-play game of one thread
VARIABLES writer_, dedup_, threads, game
vars == <<bd, prev, played, depth, ss, accumulatorStack_, refreshTable_, last_update, id_loop,
          curr_, go, tt, writer_, dedup_, threads, game>>
search_vars == <<ss, accumulatorStack_, refreshTable_, last_update>>
board_vars == <<bd, prev, played>>
store_vars == <<go, tt>>
datagen_vars == <<writer_, dedup_, threads, game>>
aux_vars == <<curr_, go, tt, writer_, dedup_, threads, game>>

\* the parts of the state a specification does not use stay at these values
aux_idle ==
    /\ curr_ = 0
    /\ go = TRUE
    /\ tt = <<>>
    /\ writer_ = <<>>
    /\ dedup_ = <<>>
    /\ threads = <<>>
    /\ game = <<>>

no_update == [refresh |-> {}, cached |-> [c \in Colors |-> <<>>]]

Init ==
    /\ bd \in Roots
    /\ prev = bd
    /\ played = null
    /\ depth = 0
    /\ ss = <<>>
    /\ accumulatorStack_ = <<>>
    /\ refreshTable_ = <<>>
    /\ last_update = no_update
    /\ id_loop = <<>>
    /\ aux_idle

\* bd.forward(mv) for a move of generate_moves<all>()
Play ==
    /\ depth < MaxPly
    /\ \E mv \in generate_moves(bd, mode_all) :
          /\ bd' = forward(bd, mv)
          /\ played' = mv
    /\ prev' = bd
    /\ depth' = depth + 1
    /\ UNCHANGED <<search_vars, id_loop, aux_vars>>

\* bd.forward(move::null()) of null-move pruning: both kings on the board, the side
\* to move not in check and holding a piece, and the previous move not a null move
NullMove ==
    /\ depth < MaxPly
    /\ HasKing(bd, white) /\ HasKing(bd, black)
    /\ ~is_check(bd) /\ ~in_atomic_blast_check(bd)
    /\ has_non_pawn_material(bd)
    /\ depth = 0 \/ ~is_null(played)
    /\ bd' = forward(bd, null)
    /\ played' = null
    /\ prev' = bd
    /\ depth' = depth + 1
    /\ UNCHANGED <<search_vars, id_loop, aux_vars>>

Next == Play \/ NullMove

\* the game tree of generated moves only
SpecGame == Init /\ [][Play]_vars

\* the search tree: generated moves and null moves
Spec == Init /\ [][Next]_vars

(* ---------------------------------------------------------------------- *)
(* Properties                                                              *)
(* ---------------------------------------------------------------------- *)
\* the 3x3 block of squares centred on s, by coordinates
Blast3x3(s) == {t \in Sq : X(t) - X(s) \in {-1, 0, 1} /\ Rk(t) - Rk(s) \in {-1, 0, 1}}

\* the blast centre of a capture: the destination, or for en passant the square on the
\* destination's file and the capturing pawn's rank
BlastCentre(mv) == IF mv.is_enpassant THEN At(X(mv.to), Rk(mv.from)) ELSE mv.to

IsCapture(mv) == mv.is_capture \/ mv.is_enpassant

\* C1: whenever the side to move has a king, no move returned by generate_moves, in
\* any of the three modes, is a capture or en-passant capture whose 3x3 blast
\* contains the mover's own king.
C1_NoOwnKingBlast ==
    HasKing(bd, turn(bd)) =>
        \A mode \in Modes : \A mv \in generate_moves(bd, mode) :
            IsCapture(mv) => KingSq(bd, turn(bd)) \notin Blast3x3(BlastCentre(mv))

\* a position where a capture that would blast the mover's own king is a candidate,
\* and other captures are returned
C1_Witness ==
    /\ HasKing(bd, turn(bd))
    /\ \E mv \in pseudo_moves(bd, turn(bd)) :
          IsCapture(mv) /\ KingSq(bd, turn(bd)) \in Blast3x3(BlastCentre(mv))
    /\ \E mv \in generate_moves(bd, mode_all) : IsCapture(mv)

\* the encodings tried against is_legal: a piece of the side to move, any destination,
\* either flag, the captured type the destination shows, the en-passant square the
\* destination implies, and a promotion type only for a pawn reaching a last rank
EncodableMoves(b) ==
    LET c == turn(b)
        them == b.man[opponent(c)]
    IN UNION {UNION {
          {Move(f, t, occ(b.man[c], f), cap, capd, ep[1], ep[2], pr) :
              cap \in BOOLEAN,
              ep \in {<<FALSE, 0>>} \cup {<<TRUE, e>> : e \in pawn_push_tbl(opponent(c), t, {})},
              capd \in {pawn, occ(them, t)},
              pr \in IF occ(b.man[c], f) = pawn /\ Rk(t) \in {0, 7} THEN PromotionTypes ELSE {pawn}}
          : t \in Sq} : f \in all(b.man[c])}

\* C2: generate_moves(all) is exactly the set of encodable moves that is_legal<all>
\* accepts: every returned move is legal, and every legal move is returned.
C2_GenerateEqualsLegal ==
    generate_moves(bd, mode_all) = {mv \in EncodableMoves(bd) : is_legal(bd, mode_all, mv)}

\* the piece of colour c on square s_, or NoPiece
NoPiece == king + 1
PieceOn(b, c, s_) == IF s_ \in all(b.man[c]) THEN occ(b.man[c], s_) ELSE NoPiece

\* what a capture leaves of colour c on square s_: nothing on the mover's origin and
\* destination, nothing where the captured piece stood, nothing where a knight, bishop,
\* rook, queen or king stood in the blast, and everything else as before
AfterCapture(b, mv, c, s_) ==
    LET mover == turn(b)
        captured_sq == IF mv.is_enpassant THEN BlastCentre(mv) ELSE mv.to
    IN IF c = mover /\ s_ \in {mv.from, mv.to} THEN NoPiece
       ELSE IF c # mover /\ s_ = captured_sq THEN NoPiece
       ELSE IF s_ \in Blast3x3(BlastCentre(mv)) /\ PieceOn(b, c, s_) \in BlastTypes THEN NoPiece
       ELSE PieceOn(b, c, s_)

\* C3: forward() of a capture removes exactly the captured piece, the capturing piece
\* and every knight, bishop, rook, queen and king of either colour in the 3x3 blast
\* around the capture square (the captured pawn's square for en passant); the other
\* pawns of the blast and every piece outside it stay where they were.
C3_BlastRemovesExactly ==
    (depth > 0 /\ IsCapture(played)) =>
        \A c \in Colors : \A s_ \in Sq : PieceOn(bd, c, s_) = AfterCapture(prev, played, c, s_)

\* an en-passant capture was played whose blast removed a piece, spared a pawn, and left
\* a piece that stands next to the destination but not next to the captured pawn
C3_Witness ==
    /\ depth > 0 /\ played.is_enpassant
    /\ \E c \in Colors : \E s_ \in king_attack_tbl[played.to] \ Blast3x3(played.enpassant_sq) :
          PieceOn(prev, c, s_) \in BlastTypes /\ PieceOn(bd, c, s_) = PieceOn(prev, c, s_)
    /\ \E c \in Colors : \E s_ \in Blast3x3(played.enpassant_sq) :
          PieceOn(prev, c, s_) \in BlastTypes /\ PieceOn(bd, c, s_) = NoPiece
    /\ \E c \in Colors : \E s_ \in Blast3x3(played.enpassant_sq) \ {played.enpassant_sq, played.from} :
          PieceOn(prev, c, s_) = pawn /\ PieceOn(bd, c, s_) = pawn

BothKings(b) == HasKing(b, white) /\ HasKing(b, black)

\* C4: in a position with both kings, a generated move is an atomic king-blast capture
\* exactly when the position after it has no king of the side that did not move.
C4_KingBlastIffEnemyKingGone ==
    BothKings(bd) =>
        \A mv \in generate_moves(bd, mode_all) :
            is_atomic_king_blast_capture(bd, mv) <=> ~HasKing(forward(bd, mv), opponent(turn(bd)))

\* a position reached by generated moves that offers a capture exploding the enemy king
\* and a capture that leaves it standing
C4_Witness ==
    /\ BothKings(bd) /\ depth > 0 /\ ~is_null(played)
    /\ \E mv \in generate_moves(bd, mode_all) :
          is_atomic_king_blast_capture(bd, mv) /\ ~HasKing(forward(bd, mv), opponent(turn(bd)))
    /\ \E mv \in generate_moves(bd, mode_all) :
          IsCapture(mv) /\ HasKing(forward(bd, mv), opponent(turn(bd)))

\* the candidate captures after which neither king is left on the board
BothKingsDie(b) ==
    {mv \in pseudo_moves(b, turn(b)) :
        /\ IsCapture(mv)
        /\ ~HasKing(forward(b, mv), white) /\ ~HasKing(forward(b, mv), black)}

AttacksFrom(b, c, pt, s_) ==
    CASE pt = pawn -> {t \in Sq : Rk(t) = Rk(s_) + (IF c THEN 1 ELSE -1) /\ X(t) - X(s_) \in {-1, 1}}
      [] pt = knight -> knight_attack_tbl[s_]
      [] pt = bishop -> bishop_attack_tbl(s_, Occupied(b))
      [] pt = rook -> rook_attack_tbl(s_, Occupied(b))
      [] pt = queen -> bishop_attack_tbl(s_, Occupied(b)) \cup rook_attack_tbl(s_, Occupied(b))
      [] OTHER -> {}

\* some non-king piece of colour by attacks square t
AttackedBy(b, by, t) ==
    \E pt \in PieceTypes \ {king} : \E s_ \in b.man[by][pt] : t \in AttacksFrom(b, by, pt, s_)

KingsAdjacent(b) ==
    BothKings(b) /\ KingSq(b, white) \in Blast3x3(KingSq(b, black))

\* the non-castling candidates that pass the piece-movement checks (for en passant:
\* the pawn to capture stands behind the target square) and do not blast the mover's
\* own king
MovementLegal(b) ==
    {mv \in pseudo_moves(b, turn(b)) :
        /\ ~is_castle_oo(turn(b), mv) /\ ~is_castle_ooo(turn(b), mv)
        /\ mv.is_enpassant => PieceOn(b, opponent(turn(b)), BlastCentre(mv)) = pawn
        /\ ~(IsCapture(mv) /\ KingSq(b, turn(b)) \in Blast3x3(BlastCentre(mv)))}

\* C6: such a move is legal exactly when, after it, the enemy king is gone, or the two
\* kings stand on adjacent squares, or no enemy non-king piece attacks the mover's king.
C6_LegalIffSafeOrTouching ==
    HasKing(bd, turn(bd)) =>
        \A mv \in MovementLegal(bd) :
            LET next == forward(bd, mv)
            IN is_legal(bd, mode_all, mv) <=>
                  \/ ~HasKing(next, opponent(turn(bd)))
                  \/ KingsAdjacent(next)
                  \/ ~AttackedBy(next, opponent(turn(bd)), KingSq(next, turn(bd)))

\* a position with a legal move that leaves the mover's king attacked beside the enemy
\* king, and a rejected move that leaves it attacked away from the enemy king
C6_Witness ==
    /\ BothKings(bd)
    /\ \E mv \in MovementLegal(bd) :
          LET next == forward(bd, mv)
          IN /\ is_legal(bd, mode_all, mv) /\ KingsAdjacent(next)
             /\ AttackedBy(next, opponent(turn(bd)), KingSq(next, turn(bd)))
    /\ \E mv \in MovementLegal(bd) :
          LET next == forward(bd, mv)
          IN /\ ~is_legal(bd, mode_all, mv) /\ BothKings(next) /\ ~KingsAdjacent(next)
             /\ AttackedBy(next, opponent(turn(bd)), KingSq(next, turn(bd)))

\* a castling candidate of colour c on the short or the long wing
IsCastle(c, short, mv) ==
    /\ mv.piece = king
    /\ mv.from = At(3, HomeRank(c))
    /\ mv.to = At(IF short THEN 0 ELSE 7, HomeRank(c))

HoldsRight(b, c, short) == IF short THEN b.lat[c].oo ELSE b.lat[c].ooo

\* the squares strictly between the king and the rook of that wing
BetweenKingAndRook(c, short) ==
    {At(x, HomeRank(c)) : x \in (IF short THEN 1 .. 2 ELSE 4 .. 6)}

\* the king's start square, the square it crosses and its destination
KingPath(c, short) ==
    {At(x, HomeRank(c)) : x \in (IF short THEN 1 .. 3 ELSE 3 .. 5)}

\* C7: in every mode, a generated castling move has its right held, the squares between
\* king and rook empty, and no square of the king's path (start, crossed, destination)
\* attacked by an enemy non-king piece.
C7_NoBarredCastle ==
    \A mode \in Modes : \A mv \in generate_moves(bd, mode) : \A short \in BOOLEAN :
        IsCastle(turn(bd), short, mv) =>
            /\ HoldsRight(bd, turn(bd), short)
            /\ BetweenKingAndRook(turn(bd), short) \cap Occupied(bd) = {}
            /\ \A sq \in KingPath(turn(bd), short) :
                  ~AttackedBy(bd, opponent(turn(bd)), sq)

\* a position where one castling move is generated while the other wing, its right held
\* and its squares empty with the king not in check, is barred by an attacked square
C7_Witness ==
    /\ \E mv \in generate_moves(bd, mode_all) : \E short \in BOOLEAN :
          IsCastle(turn(bd), short, mv)
    /\ \E short \in BOOLEAN :
          /\ HoldsRight(bd, turn(bd), short)
          /\ BetweenKingAndRook(turn(bd), short) \cap Occupied(bd) = {}
          /\ ~AttackedBy(bd, opponent(turn(bd)), At(3, HomeRank(turn(bd))))
          /\ \E sq \in KingPath(turn(bd), short) : AttackedBy(bd, opponent(turn(bd)), sq)
          /\ ~\E mv \in generate_moves(bd, mode_all) : IsCastle(turn(bd), short, mv)

\* mv moves a pawn of colour c two ranks forward from its start rank
DoublePush(c, mv) ==
    /\ mv.piece = pawn /\ ~IsCapture(mv)
    /\ Rk(mv.from) = (IF c THEN 1 ELSE 6)
    /\ X(mv.to) = X(mv.from)
    /\ Rk(mv.to) = (IF c THEN 3 ELSE 4)

\* the square a double push passes over
Crossed(mv) == At(X(mv.from), (Rk(mv.from) + Rk(mv.to)) \div 2)

EpTargets(b) == b.lat[white].ep_mask \cup b.lat[black].ep_mask

\* C8: in a game of generated moves, a position has an en-passant target only when the
\* move just played was a double pawn push, the target is the square that push crossed
\* and a pawn of the side to move attacks it; the target of the previous position is gone
\* after any move; and a generated en-passant capture takes the pawn that was just
\* double-pushed.
C8_EpOnlyRightAfterDoublePush ==
    LET mover == opponent(turn(bd))
    IN /\ bd.lat[turn(bd)].ep_mask = {}
       /\ EpTargets(bd) # {} =>
             /\ depth > 0
             /\ DoublePush(mover, played)
             /\ EpTargets(bd) = {Crossed(played)}
             /\ \E s_ \in bd.man[turn(bd)][pawn] :
                   Crossed(played) \in AttacksFrom(bd, turn(bd), pawn, s_)
       /\ (depth > 0 /\ EpTargets(prev) # {}) => EpTargets(prev) \cap EpTargets(bd) = {}
       /\ \A mv \in generate_moves(bd, mode_all) :
             mv.is_enpassant =>
                 /\ depth > 0
                 /\ DoublePush(mover, played)
                 /\ mv.piece = pawn
                 /\ mv.to = Crossed(played)
                 /\ mv.enpassant_sq = played.to

\* the position before offered an en-passant capture, another move was played, and the
\* target is gone although the double-pushed pawn still stands
C8_Witness ==
    /\ depth > 1
    /\ EpTargets(prev) # {}
    /\ \E mv \in generate_moves(prev, mode_all) : mv.is_enpassant
    /\ ~played.is_enpassant
    /\ \E mv \in generate_moves(prev, mode_all) :
          mv.is_enpassant /\ mv.enpassant_sq \in bd.man[turn(bd)][pawn]
    /\ EpTargets(bd) = {}

\* C9: after a null move no en-passant target is set, and piece placement and castling
\* rights are those of the position before, with ply_count and half_clock one higher.
C9_NullMoveClearsEp ==
    (depth > 0 /\ is_null(played)) =>
        /\ EpTargets(bd) = {}
        /\ bd.man = prev.man
        /\ \A c \in Colors : bd.lat[c].oo = prev.lat[c].oo /\ bd.lat[c].ooo = prev.lat[c].ooo
        /\ bd.ply_count = prev.ply_count + 1
        /\ bd.half_clock = prev.half_clock + 1

\* C10: after forward(), a held castling right has its rook on the rook's home square.
C10_RightImpliesRookAtHome ==
    depth > 0 =>
        \A c \in Colors : \A short \in BOOLEAN :
            HoldsRight(bd, c, short) =>
                PieceOn(bd, c, At(IF short THEN 0 ELSE 7, HomeRank(c))) = rook

\* a move that neither left nor landed on a rook's home square removed that rook, and
\* the right it carried is gone
C10_Witness ==
    /\ depth > 0
    /\ \E c \in Colors : \E short \in BOOLEAN :
          LET home == At(IF short THEN 0 ELSE 7, HomeRank(c))
          IN /\ HoldsRight(prev, c, short)
             /\ PieceOn(prev, c, home) = rook
             /\ played.from # home /\ played.to # home
             /\ IsCapture(played)
             /\ PieceOn(bd, c, home) = NoPiece
             /\ ~HoldsRight(bd, c, short)

\* the thresholds see_ge is asked about
SeeThresholds ==
    {-score_mate, -see_value(pawn), -1, 0, 1, 2 * see_value(pawn), see_value(knight), score_mate}

PieceValue(pt) ==
    CASE pt = pawn -> 100 [] pt = knight -> 450 [] pt = bishop -> 450
      [] pt = rook -> 650 [] pt = queen -> 1250 [] OTHER -> 0

RECURSIVE SumOfValues(_, _, _)
SumOfValues(b, c, squares) ==
    IF squares = {} THEN 0
    ELSE LET sq == CHOOSE x \in squares : TRUE
         IN PieceValue(PieceOn(b, c, sq)) + SumOfValues(b, c, squares \ {sq})

\* the knights, bishops, rooks and queens of colour c in the blast of mv, the mover and
\* the captured piece left out
BlastedPieces(b, c, mv) ==
    {sq \in Blast3x3(BlastCentre(mv)) \ {mv.from, mv.to} :
        PieceOn(b, c, sq) \in {knight, bishop, rook, queen}}

\* captured + enemy pieces in the blast - mover - own pieces in the blast - 1
BlastBalance(b, mv) ==
    LET c == turn(b)
    IN (IF mv.is_enpassant THEN PieceValue(pawn) ELSE PieceValue(mv.captured))
       + SumOfValues(b, opponent(c), BlastedPieces(b, opponent(c), mv))
       - PieceValue(mv.piece)
       - SumOfValues(b, c, BlastedPieces(b, c, mv))
       - 1

NoKingInBlast(b, mv) ==
    \A c \in Colors : b.man[c][king] \cap Blast3x3(BlastCentre(mv)) = {}

\* C15: for a generated capture whose blast holds no king, see_ge(m, t) is true exactly
\* when captured + enemy pieces in the blast - mover - own pieces in the blast - 1 >= t.
C15_CaptureSeeIsBlastBalance ==
    \A mv \in generate_moves(bd, mode_all) :
        (IsCapture(mv) /\ NoKingInBlast(bd, mv)) =>
            \A t \in SeeThresholds : see_ge(bd, mv, t) <=> (BlastBalance(bd, mv) >= t)

\* C16: for a generated move that captures nothing, see_ge(m, t) is false for every
\* threshold t > 0.
C16_QuietSeeAtMostZero ==
    \A mv \in generate_moves(bd, mode_all) :
        ~IsCapture(mv) => \A t \in SeeThresholds : t > 0 => ~see_ge(bd, mv, t)

\* C17: for the null move and every generated move, see_ge(m, t + 1) implies
\* see_ge(m, t), and see_gt(m, t) is see_ge(m, t + 1).
C17_SeeMonotoneAndGt ==
    \A mv \in generate_moves(bd, mode_all) \cup {null} : \A t \in SeeThresholds :
        LET above == see_ge(bd, mv, t + 1)
        IN /\ above => see_ge(bd, mv, t)
           /\ see_gt(bd, mv, t) <=> above

\* a capture and a quiet move, each with a threshold it meets and the next one it fails
C17_Witness ==
    /\ \E mv \in generate_moves(bd, mode_all) : \E t \in SeeThresholds :
          IsCapture(mv) /\ see_ge(bd, mv, t) /\ ~see_gt(bd, mv, t)
    /\ \E mv \in generate_moves(bd, mode_all) : \E t \in SeeThresholds :
          ~IsCapture(mv) /\ see_ge(bd, mv, t) /\ ~see_gt(bd, mv, t)

\* after mv the opponent's king is attacked by a non-king piece of the mover while the
\* kings are apart, or the mover threatens a capture whose blast holds that king
GivesCheck(b, mv) ==
    LET next == forward(b, mv)
        mover == turn(b)
    IN /\ BothKings(next)
       /\ \/ (~KingsAdjacent(next) /\ AttackedBy(next, mover, KingSq(next, opponent(mover))))
          \/ in_atomic_blast_check(next)

\* C18: every legal move that captures, promotes to a queen or gives check is returned
\* by generate_moves(noisy_and_check).
C18_NoisyModeHasEveryCheck ==
    \A mv \in generate_moves(bd, mode_all) :
        (IsCapture(mv) \/ (is_promotion(mv) /\ mv.promotion = queen) \/ GivesCheck(bd, mv)) =>
            mv \in generate_moves(bd, mode_noisy_and_check)

(* ---------------------------------------------------------------------- *)
(* FEN: board::fen writes six space-separated fields, board::parse_fen     *)
(* reads them back.  A string is a sequence of one-character strings.      *)
(* ---------------------------------------------------------------------- *)
DigitChars == <<"0", "1", "2", "3", "4", "5", "6", "7", "8", "9">>
FileChars == <<"a", "b", "c", "d", "e", "f", "g", "h">>
WhiteLetters == <<"P", "N", "B", "R", "Q", "K">>
BlackLetters == <<"p", "n", "b", "r", "q", "k">>

is_digit(ch) == \E d \in 1 .. 10 : DigitChars[d] = ch
digit_value(ch) == (CHOOSE d \in 1 .. 10 : DigitChars[d] = ch) - 1

RECURSIVE to_string(_)
to_string(n) ==
    IF n < 10 THEN <<DigitChars[n + 1]>>
    ELSE to_string(n \div 10) \o <<DigitChars[(n % 10) + 1]>>

RECURSIVE stol_(_, _)
stol_(str, acc) ==
    IF str = <<>> \/ ~is_digit(Head(str)) THEN acc
    ELSE stol_(Tail(str), 10 * acc + digit_value(Head(str)))

stol(str) == stol_(str, 0)

piece_letter(c, pt) == IF c = white THEN WhiteLetters[pt + 1] ELSE BlackLetters[pt + 1]
color_from(ch) == \E i \in 1 .. 6 : WhiteLetters[i] = ch
type_from(ch) ==
    IF color_from(ch) THEN (CHOOSE i \in 1 .. 6 : WhiteLetters[i] = ch) - 1
    ELSE (CHOOSE i \in 1 .. 6 : BlackLetters[i] = ch) - 1

\* tbl_square{file, rank}.rotated().index(): table rank 0 is the eighth rank, file 0 the a-file
tbl_square_rotated(file_idx, rank_idx) == At(7 - file_idx, 7 - rank_idx)

square_name(sq) == <<FileChars[(7 - X(sq)) + 1], DigitChars[Rk(sq) + 2]>>
from_name(str) ==
    At(7 - ((CHOOSE i \in 1 .. 8 : FileChars[i] = str[1]) - 1), digit_value(str[2]) - 1)

empty_count(j) == IF j # 0 THEN to_string(j) ELSE <<>>

RECURSIVE fen_rank(_, _, _, _)
fen_rank(b, i, file_idx, j) ==
    IF file_idx = 8 THEN empty_count(j)
    ELSE LET at == tbl_square_rotated(file_idx, i)
         IN IF at \in all(b.man[white])
            THEN empty_count(j) \o <<piece_letter(white, occ(b.man[white], at))>>
                     \o fen_rank(b, i, file_idx + 1, 0)
            ELSE IF at \in all(b.man[black])
            THEN empty_count(j) \o <<piece_letter(black, occ(b.man[black], at))>>
                     \o fen_rank(b, i, file_idx + 1, 0)
            ELSE fen_rank(b, i, file_idx + 1, j + 1)

RECURSIVE fen_body(_, _)
fen_body(b, i) ==
    IF i = 7 THEN fen_rank(b, i, 0, 0)
    ELSE fen_rank(b, i, 0, 0) \o <<"/">> \o fen_body(b, i + 1)

fen_castle(b) ==
    LET castle_rights ==
            (IF b.lat[white].oo THEN <<"K">> ELSE <<>>) \o
            (IF b.lat[white].ooo THEN <<"Q">> ELSE <<>>) \o
            (IF b.lat[black].oo THEN <<"k">> ELSE <<>>) \o
            (IF b.lat[black].ooo THEN <<"q">> ELSE <<>>)
    IN IF castle_rights = <<>> THEN <<"-">> ELSE castle_rights

\* the en-passant field written from the mask of the side that is to move
fen_ep_us(b) ==
    IF b.lat[turn(b)].ep_mask # {} THEN square_name(item(b.lat[turn(b)].ep_mask)) ELSE <<"-">>

fen_ep(b) ==
    IF b.lat[opponent(turn(b))].ep_mask # {}
    THEN square_name(item(b.lat[opponent(turn(b))].ep_mask))
    ELSE <<"-">>

fen(b) ==
    fen_body(b, 0) \o <<" ">> \o
    <<IF turn(b) THEN "w" ELSE "b">> \o <<" ">> \o
    fen_castle(b) \o <<" ">> \o
    fen_ep(b) \o <<" ">> \o
    to_string(b.half_clock) \o <<" ">> \o
    to_string(1 + (b.ply_count \div 2))

\* operator>> on the string stream: the n-th whitespace-separated token
RECURSIVE first_token(_)
first_token(str) ==
    IF str = <<>> \/ Head(str) = " " THEN <<>> ELSE <<Head(str)>> \o first_token(Tail(str))

RECURSIVE token(_, _)
token(str, n) ==
    IF str = <<>> THEN <<>>
    ELSE IF Head(str) = " " THEN token(Tail(str), n)
    ELSE IF n = 1 THEN first_token(str)
    ELSE token(SubSeq(str, Len(first_token(str)) + 1, Len(str)), n - 1)

empty_manifest == [c \in Colors |-> [pt \in PieceTypes |-> {}]]

RECURSIVE parse_body(_, _, _, _)
parse_body(body, rank_idx, file_idx, man) ==
    IF body = <<>> THEN man
    ELSE LET ch == Head(body)
         IN IF ch = "/" THEN parse_body(Tail(body), rank_idx + 1, 0, man)
            ELSE IF is_digit(ch)
            THEN parse_body(Tail(body), rank_idx, file_idx + digit_value(ch), man)
            ELSE parse_body(Tail(body), rank_idx, file_idx + 1,
                            [man EXCEPT ![color_from(ch)] =
                                add_piece(@, type_from(ch),
                                          tbl_square_rotated(file_idx, rank_idx))])

find(str, ch) == \E i \in 1 .. Len(str) : str[i] = ch

parse_fen(str) ==
    LET body == token(str, 1)
        side == token(str, 2)
        castle == token(str, 3)
        ep_sq == token(str, 4)
        half_clock == token(str, 5)
        move_count == token(str, 6)
        stm == (side = <<"w">>)
        ep_of(c) == IF ep_sq # <<"-">> /\ c = opponent(stm) THEN {from_name(ep_sq)} ELSE {}
    IN [man |-> parse_body(body, 0, 0, empty_manifest),
        lat |-> [c \in Colors |->
                    [ep_mask |-> ep_of(c),
                     oo |-> find(castle, IF c = white THEN "K" ELSE "k"),
                     ooo |-> find(castle, IF c = white THEN "Q" ELSE "q")]],
        half_clock |-> stol(half_clock),
        ply_count |-> 2 * (stol(move_count) - 1) + (IF side # <<"w">> THEN 1 ELSE 0)]

\* C19: for every position reached by legal moves and every legal move played from
\* it, the successor written by fen() and read back by parse_fen() has the same piece
\* placement, side to move, castling rights, en-passant masks of both sides, halfmove
\* clock and ply count.
C19_FenRoundTrip ==
    depth > 0 =>
        LET next == forward(prev, played)
            back == parse_fen(fen(next))
        IN /\ back.man = next.man
           /\ turn(back) = turn(next)
           /\ \A c \in Colors : /\ back.lat[c].oo = next.lat[c].oo
                                /\ back.lat[c].ooo = next.lat[c].ooo
                                /\ back.lat[c].ep_mask = next.lat[c].ep_mask
           /\ back.half_clock = next.half_clock
           /\ back.ply_count = next.ply_count

C19_Witness ==
    /\ depth > 0
    /\ bd = forward(prev, played)
    /\ bd.lat[opponent(turn(bd))].ep_mask # {}
    /\ \E c \in Colors : bd.lat[c].oo \/ bd.lat[c].ooo
    /\ bd.half_clock = 0
    /\ parse_fen(fen(bd)) = bd

(* ---------------------------------------------------------------------- *)
(* the search worker's recursion: the calls pv_search and q_search make    *)
(* on each other and the NnueState updates and pops around them.  Scores,  *)
(* depths and table hits are not kept: every pruning condition that        *)
(* depends on them may or may not hold.                                    *)
(* ---------------------------------------------------------------------- *)
MaxHeight == 4
MaxSearchSteps == 4
\* 3k4/1P6/8/8/8/8/8/6K1 w - - 0 1: quiet promotions, no capture
RootPawnRace ==
    Position({<<white, king, S(7, 1)>>, <<white, pawn, S(2, 7)>>, <<black, king, S(4, 8)>>},
             white, NoRights, NoRights)

SearchRoots == {RootEnPassant, RootCastle, RootPawnRace}

Top(stack) == stack[Len(stack)]
Pop(stack) == SubSeq(stack, 1, Len(stack) - 1)

\* one activation of pv_search or q_search: its board, its template arguments, the
\* q_search elevation, whether the caller pushed an accumulator for it, and whether it
\* is the q_search call of the ProbCut step or runs with an excluded move
Frame(b, fn, is_pv, is_root, elevation, pushed, probcut, excluded, mv) ==
    [bd |-> b, fn |-> fn, is_pv |-> is_pv, is_root |-> is_root, elevation |-> elevation,
     pushed |-> pushed, probcut |-> probcut, excluded |-> excluded, played |-> mv]

is_check_any(b) == is_check(b) \/ in_atomic_blast_check(b)

\* iterative_deepening_loop: nnue_state.reset(root), then pv_search<true, true> on it
InitSearch ==
    /\ bd \in SearchRoots
    /\ prev = bd
    /\ played = null
    /\ depth = 0
    /\ ss = <<Frame(bd, "pv_search", TRUE, TRUE, 0, FALSE, FALSE, FALSE, null)>>
    /\ accumulatorStack_ = <<[accumulator |-> reset(bd).accumulator, of |-> bd]>>
    /\ refreshTable_ = reset(bd).table
    /\ last_update = no_update
    /\ id_loop = <<>>
    /\ aux_idle

\* buildUpdates(before, after); nnue_state.update<true>(updates, after); then the call
CallWithUpdate(before, after, frame) ==
    /\ Len(ss) < MaxHeight /\ depth < MaxSearchSteps
    /\ \E prevBlackKing \in king_item(before, black), prevWhiteKing \in king_item(before, white),
          nextBlackKing \in king_item(after, black), nextWhiteKing \in king_item(after, white),
          blackKing \in king_item(after, black), whiteKing \in king_item(after, white) :
          LET updates == buildUpdates(before, after, prevBlackKing, prevWhiteKing,
                                      nextBlackKing, nextWhiteKing)
              next == update(Top(accumulatorStack_).accumulator, refreshTable_, updates, after,
                             blackKing, whiteKing)
          IN /\ accumulatorStack_' =
                    Append(accumulatorStack_, [accumulator |-> next.accumulator, of |-> after])
             /\ refreshTable_' = next.table
             /\ last_update' =
                    [refresh |-> {c \in Colors : updates.refresh[c]},
                     cached |-> [c \in Colors |->
                         refreshTable_[getBucket(c, IF c = black THEN blackKing ELSE whiteKing)].bbs[c]]]
    /\ ss' = Append(ss, frame)
    /\ bd' = after
    /\ depth' = depth + 1
    /\ UNCHANGED <<prev, played, id_loop, aux_vars>>

\* a call on the same board: no update, no pop
CallSameBoard(frame) ==
    /\ Len(ss) < MaxHeight /\ depth < MaxSearchSteps
    /\ ss' = Append(ss, frame)
    /\ last_update' = no_update
    /\ depth' = depth + 1
    /\ UNCHANGED <<bd, prev, played, accumulatorStack_, refreshTable_, id_loop, aux_vars>>

in_pv_body(f) == f.fn = "pv_search" /\ HasKing(f.bd, white) /\ HasKing(f.bd, black)
in_q_body(f) == f.fn = "q_search" /\ HasKing(f.bd, white) /\ HasKing(f.bd, black)

\* pv_search step 1 (depth <= 0) and razoring: q_search on the same board
PvQuiesce ==
    LET f == Top(ss)
    IN /\ f.fn = "pv_search"
       /\ CallSameBoard(Frame(f.bd, "q_search", f.is_pv, FALSE, 0, FALSE, FALSE, FALSE, null))

\* null move pruning
PvNullMove ==
    LET f == Top(ss)
    IN /\ in_pv_body(f)
       /\ ~f.is_pv /\ ~f.excluded /\ ~is_check_any(f.bd)
       /\ ~(f.pushed /\ is_null(f.played))
       /\ has_non_pawn_material(f.bd)
       /\ CallWithUpdate(f.bd, forward(f.bd, null),
              Frame(forward(f.bd, null), "pv_search", FALSE, FALSE, 0, TRUE, FALSE, FALSE, null))

\* ProbCut: the q_search call on the successor of a noisy move with see_ge(mv, 0)
PvProbCut ==
    LET f == Top(ss)
    IN /\ in_pv_body(f)
       /\ ~f.is_pv /\ ~f.excluded
       /\ \E mv \in generate_moves(f.bd, mode_noisy_and_check) :
             /\ see_ge(f.bd, mv, 0)
             /\ CallWithUpdate(f.bd, forward(f.bd, mv),
                    Frame(forward(f.bd, mv), "q_search", FALSE, FALSE, 0, TRUE, TRUE, FALSE, mv))

\* ProbCut, q_score >= probcut_beta: q_search has returned, nnue_state.pop() has run,
\* and pv_score() calls pv_search on the successor
ProbCutVerify ==
    LET f == Top(ss)
    IN /\ Len(ss) > 1 /\ depth < MaxSearchSteps
       /\ f.probcut
       /\ accumulatorStack_' = (IF Len(accumulatorStack_) > 1 THEN Pop(accumulatorStack_)
                                ELSE accumulatorStack_)
       /\ ss' = Append(Pop(ss), Frame(f.bd, "pv_search", FALSE, FALSE, 0, FALSE, FALSE, FALSE, f.played))
       /\ last_update' = no_update
       /\ depth' = depth + 1
       /\ UNCHANGED <<bd, prev, played, refreshTable_, id_loop, aux_vars>>

\* singular extension search: pv_search on the same board with the move excluded
PvSingular ==
    LET f == Top(ss)
    IN /\ in_pv_body(f)
       /\ ~f.is_root /\ ~f.excluded
       /\ generate_moves(f.bd, mode_all) # {}
       /\ CallSameBoard(Frame(f.bd, "pv_search", FALSE, FALSE, 0, FALSE, FALSE, TRUE, null))

\* the move loop of pv_search: a move that is not a king-blast capture
PvMove ==
    LET f == Top(ss)
    IN /\ in_pv_body(f)
       /\ \E mv \in generate_moves(f.bd, mode_all) :
             /\ ~is_atomic_king_blast_capture(f.bd, mv)
             /\ \E child_pv \in (IF f.is_pv THEN BOOLEAN ELSE {FALSE}) :
                   CallWithUpdate(f.bd, forward(f.bd, mv),
                       Frame(forward(f.bd, mv), "pv_search", child_pv, FALSE, 0, TRUE, FALSE, FALSE, mv))

\* first loop of q_search: noisy moves
QMove ==
    LET f == Top(ss)
    IN /\ in_q_body(f)
       /\ \E in_check \in {is_check_any(f.bd)} :
          \E mv \in generate_moves(f.bd, mode_noisy_and_check) :
             /\ ~is_atomic_king_blast_capture(f.bd, mv)
             /\ in_check \/ see_ge(f.bd, mv, 0)
             /\ CallWithUpdate(f.bd, forward(f.bd, mv),
                    Frame(forward(f.bd, mv), "q_search", f.is_pv, FALSE, f.elevation + 1,
                          TRUE, FALSE, FALSE, mv))

\* the first loop of q_search ends without returning: it returns win_score as soon as it
\* reaches a king-blast capture, and it is left early at a move with a bad exchange (or,
\* off the principal variation, by delta pruning at a move that gains nothing)
first_loop_falls_through(b, is_pv, noisy) ==
    \/ \A mv \in noisy : ~is_atomic_king_blast_capture(b, mv)
    \/ \E mv \in noisy :
          /\ ~is_atomic_king_blast_capture(b, mv)
          /\ ~see_ge(b, mv, 0) \/ (~is_pv /\ ~see_gt(b, mv, 0))

\* promotion quiescence: quiet promotions at elevation 0
QPromotion ==
    LET f == Top(ss)
    IN /\ in_q_body(f)
       /\ ~is_check_any(f.bd) /\ f.elevation = 0
       /\ first_loop_falls_through(f.bd, f.is_pv, generate_moves(f.bd, mode_noisy_and_check))
       /\ \E mv \in generate_moves(f.bd, mode_quiet_and_check) :
             /\ is_promotion(mv) /\ ~is_noisy(mv)
             /\ CallWithUpdate(f.bd, forward(f.bd, mv),
                    Frame(forward(f.bd, mv), "q_search", f.is_pv, FALSE, f.elevation + 1,
                          TRUE, FALSE, FALSE, mv))

\* threat quiescence: quiet moves into the enemy king zone (or castles) that create a
\* blast capture threat
QThreat ==
    LET f == Top(ss)
        us == turn(f.bd)
        king_zone == explosion_mask(KingSq(f.bd, opponent(us)))
    IN /\ in_q_body(f)
       /\ ~is_check_any(f.bd) /\ f.elevation = 0
       /\ first_loop_falls_through(f.bd, f.is_pv, generate_moves(f.bd, mode_noisy_and_check))
       /\ \E mv \in generate_moves(f.bd, mode_quiet_and_check) :
             /\ ~is_noisy(mv)
             /\ \/ mv.to \in king_zone
                \/ \E c \in Colors : is_castle_oo(c, mv) \/ is_castle_ooo(c, mv)
             /\ has_atomic_blast_capture(forward(f.bd, mv))
             /\ CallWithUpdate(f.bd, forward(f.bd, mv),
                    Frame(forward(f.bd, mv), "q_search", f.is_pv, FALSE, f.elevation + 1,
                          TRUE, FALSE, FALSE, mv))

\* a call returns to its caller, which pops the accumulator it pushed for the call
Return ==
    LET f == Top(ss)
    IN /\ Len(ss) > 1 /\ depth < MaxSearchSteps
       /\ ss' = Pop(ss)
       /\ accumulatorStack_' = (IF f.pushed /\ Len(accumulatorStack_) > 1
                                THEN Pop(accumulatorStack_) ELSE accumulatorStack_)
       /\ bd' = Top(Pop(ss)).bd
       /\ last_update' = no_update
       /\ depth' = depth + 1
       /\ UNCHANGED <<prev, played, refreshTable_, id_loop, aux_vars>>

NextSearch ==
    \/ PvQuiesce \/ PvNullMove \/ PvProbCut \/ ProbCutVerify \/ PvSingular \/ PvMove
    \/ QMove \/ QPromotion \/ QThreat \/ Return

SpecSearch == InitSearch /\ [][NextSearch]_vars

(***************************************************************************)
(* Accumulator stack discipline of the search                              *)
(***************************************************************************)

\* the accumulator rebuilt from scratch for a board: the biases plus the feature
\* columns of every piece, for one perspective
scratch(b, c) == resetAccumulator(biases, c, from_board(b), KingSq(b, c))

both_kings(b) == HasKing(b, white) /\ HasKing(b, black)

\* C20: on entry to (and throughout) every pv_search or q_search call, the accumulator
\* on top of the accumulator stack is the one pushed for the board the call was given.
C20_TopAccumulatorIsForBoard ==
    ss # <<>> => Top(accumulatorStack_).of = Top(ss).bd

\* C11: the accumulator on top of the stack equals, for both perspectives, the
\* accumulator rebuilt from scratch for the position it was pushed for.
C11_TopEqualsScratch ==
    (ss # <<>> /\ both_kings(Top(accumulatorStack_).of))
        => \A c \in Colors :
              Top(accumulatorStack_).accumulator[c] = scratch(Top(accumulatorStack_).of, c)

\* C12: when update ran with the refresh flag set for a perspective, the accumulator it
\* produced for that perspective equals resetAccumulator on a bias-initialised
\* accumulator from the current bitboards and king square, whatever the refresh-table
\* entry of that bucket had cached before.
C12_RefreshEqualsReset ==
    \A c \in last_update.refresh :
        HasKing(Top(accumulatorStack_).of, c)
            => Top(accumulatorStack_).accumulator[c] = scratch(Top(accumulatorStack_).of, c)

\* a refresh whose bucket entry had cached another position, with pieces on squares
\* that are empty or differently occupied now
C12_Witness ==
    \E c \in last_update.refresh :
        /\ HasKing(Top(accumulatorStack_).of, c)
        /\ PieceSquares(last_update.cached[c]) \ PieceSquares(from_board(Top(accumulatorStack_).of)) # {}
        /\ PieceSquares(from_board(Top(accumulatorStack_).of)) \ PieceSquares(last_update.cached[c]) # {}

(***************************************************************************)
(* iterative_deepening_loop and the root pv_search it calls                *)
(***************************************************************************)

\* 3k2r1/3p4/4P3/8/8/8/8/7K w - - 0 1: e6xd7 blasts the king on d8
RootBlastMate ==
    Position({<<white, king, S(8, 1)>>, <<white, pawn, S(5, 6)>>,
              <<black, king, S(4, 8)>>, <<black, pawn, S(4, 7)>>, <<black, rook, S(7, 8)>>},
             white, NoRights, NoRights)

\* 4k1r1/8/8/8/8/8/4P3/7K w - - 0 1: no capture at all
RootQuiet ==
    Position({<<white, king, S(8, 1)>>, <<white, pawn, S(5, 2)>>,
              <<black, king, S(5, 8)>>, <<black, rook, S(7, 8)>>},
             white, NoRights, NoRights)

IdRoots == {RootBlastMate, RootQuiet}

max_depth == 2
MaxAttempts == 3

\* score constants of the search: mate_score is the loss at ply 0, and the full window
\* [-big_number, big_number] either excludes or includes the mate scores
mate_score == -100
draw_score == 0
BigNumbers == {64, 128}
aspiration_delta == 3
aspiration_depth == 2
loss_score(height) == mate_score + height
win_score(height) == -mate_score - height

\* -pv_search(ss.next(), ...) of a successor: between the successor's win and its loss
ChildScores == {-win_score(1), 5, -loss_score(1)}
\* the second move of the principal variation kept by the stack
PonderMoves == {0, 1}

\* C++ integer division
trunc_div(a, b) == IF a >= 0 THEN a \div b ELSE -((-a) \div b)

\* syzygy::probe_dtz: atomic_syzygy_core::probe_wdl returns false on every path
probe_dtz(b) == [success |-> FALSE, score |-> draw_score, move |-> null]

\* the root activation of pv_search at the head of its move loop
pv_enter(l, b, alpha, beta, d) ==
    [alpha |-> alpha, beta |-> beta, depth |-> d, window |-> <<alpha, beta>>,
     todo |-> generate_moves(b, mode_all), legal_count |-> 0,
     best_score |-> loss_score(0), best_move |-> null, forwarded |-> {},
     ponder |-> l.pv.ponder, go_at_entry |-> l.go]

\* the move loop without the immediate mate override
pv_loop_step_no_override(a, b, mv, child_score, child_ponder) ==
    LET better == child_score > a.best_score
    IN [a EXCEPT !.todo = @ \ {mv},
                 !.legal_count = @ + 1,
                 !.forwarded = @ \cup {mv},
                 !.best_score = IF better THEN child_score ELSE @,
                 !.best_move = IF better THEN mv ELSE @,
                 !.alpha = IF better /\ child_score > a.alpha /\ child_score < a.beta
                           THEN child_score ELSE @,
                 !.ponder = IF better /\ child_score > a.alpha THEN child_ponder ELSE @]

\* one iteration of the move loop of pv_search<true, true> that scores a move; a
\* king-blast capture is scored win_score without forward(), any other move by the
\* recursive search of its successor (child_score, with child_ponder at the head of the
\* successor's principal variation)
pv_loop_step(a, b, mv, child_score, child_ponder) ==
    LET blast == is_atomic_king_blast_capture(b, mv)
        score == IF blast THEN win_score(0) ELSE child_score
        better == score > a.best_score
    IN [a EXCEPT !.todo = @ \ {mv},
                 !.legal_count = @ + 1,
                 !.forwarded = IF blast THEN @ ELSE @ \cup {mv},
                 !.best_score = IF better THEN score ELSE @,
                 !.best_move = IF better THEN mv ELSE @,
                 !.alpha = IF better /\ score > a.alpha /\ (blast \/ score < a.beta)
                           THEN score ELSE @,
                 !.ponder = IF better /\ score > a.alpha
                            THEN (IF blast THEN 0 ELSE child_ponder) ELSE @]

\* what pv_search<true, true> returns after its move loop
pv_result(a, b) ==
    IF a.legal_count = 0 /\ is_check_any(b) THEN [score |-> loss_score(0), move |-> null]
    ELSE IF a.legal_count = 0 THEN [score |-> draw_score, move |-> null]
    ELSE [score |-> a.best_score, move |-> a.best_move]

\* the loop without the keep_going test after pv_search
id_after_search_no_stop_check(l, res) ==
    IF res.score <= l.alpha
    THEN [l EXCEPT !.beta = trunc_div(l.alpha + l.beta, 2),
                   !.alpha = res.score - l.delta,
                   !.failed_high = 0,
                   !.delta = @ + trunc_div(@, 3),
                   !.pc = "search"]
    ELSE IF res.score >= l.beta
    THEN [l EXCEPT !.beta = res.score + l.delta,
                   !.failed_high = @ + 1,
                   !.delta = @ + trunc_div(@, 3),
                   !.pc = "search"]
    ELSE [l EXCEPT !.score = res.score,
                   !.best_move = IF is_null(res.move) THEN @ ELSE res.move,
                   !.ponder_move = IF is_null(res.move) THEN @ ELSE l.pv.ponder,
                   !.pc = "iter_end"]

\* iterative_deepening_loop after pv_search has returned: leave on stop, widen the
\* window on a fail low or a fail high, publish the result otherwise
id_after_search(l, res) ==
    IF ~l.go THEN [l EXCEPT !.pc = "iter_end"]
    ELSE IF res.score <= l.alpha
    THEN [l EXCEPT !.beta = trunc_div(l.alpha + l.beta, 2),
                   !.alpha = res.score - l.delta,
                   !.failed_high = 0,
                   !.delta = @ + trunc_div(@, 3),
                   !.pc = "search"]
    ELSE IF res.score >= l.beta
    THEN [l EXCEPT !.beta = res.score + l.delta,
                   !.failed_high = @ + 1,
                   !.delta = @ + trunc_div(@, 3),
                   !.pc = "search"]
    ELSE [l EXCEPT !.score = res.score,
                   !.best_move = IF is_null(res.move) THEN @ ELSE res.move,
                   !.ponder_move = IF is_null(res.move) THEN @ ELSE l.pv.ponder,
                   !.pc = "iter_end"]

\* the head of the outer loop for the iteration at internal.depth = d
id_iteration(l, d) ==
    IF ~l.go THEN [l EXCEPT !.pc = "done"]
    ELSE LET dd == IF d < max_depth THEN d ELSE max_depth
             aspirate == dd >= aspiration_depth
         IN [l EXCEPT !.depth = dd,
                      !.alpha = IF aspirate THEN l.score - aspiration_delta ELSE @,
                      !.beta = IF aspirate THEN l.score + aspiration_delta ELSE @,
                      !.delta = aspiration_delta,
                      !.failed_high = 0,
                      !.attempts = 0,
                      !.pc = "search"]

no_activation ==
    [alpha |-> 0, beta |-> 0, depth |-> 0, window |-> <<0, 0>>, todo |-> {}, legal_count |-> 0,
     best_score |-> 0, best_move |-> null, forwarded |-> {}, ponder |-> 0, go_at_entry |-> TRUE]

no_result == [score |-> 0, move |-> null]

published(l) == <<l.score, l.best_move, l.ponder_move>>

\* a worker about to run iterative_deepening_loop on a root position
InitId ==
    /\ bd \in IdRoots
    /\ prev = bd
    /\ played = null
    /\ depth = 0
    /\ ss = <<>>
    /\ accumulatorStack_ = <<[accumulator |-> reset(bd).accumulator, of |-> bd]>>
    /\ refreshTable_ = reset(bd).table
    /\ last_update = no_update
    /\ \E big_number \in BigNumbers :
          id_loop = id_iteration(
              [pc |-> "start", go |-> TRUE, big_number |-> big_number, depth |-> 1,
               alpha |-> -big_number, beta |-> big_number, delta |-> aspiration_delta,
               failed_high |-> 0, attempts |-> 0,
               score |-> 0, best_move |-> null, ponder_move |-> 0,
               at_stop |-> <<>>, pv |-> no_activation, result |-> no_result,
               result_window |-> <<0, 0>>, result_forwarded |-> {}, interrupted |-> FALSE], 1)
    /\ aux_idle

id_running == id_loop # <<>> /\ id_loop.pc # "done"

\* the stop flag is set by the controlling thread
Stop ==
    /\ id_running /\ id_loop.go
    /\ id_loop' = [id_loop EXCEPT !.go = FALSE, !.at_stop = published(id_loop)]
    /\ UNCHANGED <<bd, prev, played, depth, search_vars, aux_vars>>

\* clear_future and the call of pv_search<true, true> with the adjusted depth
IdSearch ==
    /\ id_running /\ id_loop.pc = "search"
    /\ id_loop.attempts < MaxAttempts
    /\ LET d == id_loop.depth - id_loop.failed_high
           adjusted_depth == IF d > 1 THEN d ELSE 1
           res == probe_dtz(bd)
       IN id_loop' =
             IF res.success
             THEN [id_loop EXCEPT !.result = [score |-> res.score, move |-> res.move],
                                  !.attempts = @ + 1, !.pc = "returned"]
             ELSE [id_loop EXCEPT !.pv = pv_enter(id_loop, bd, id_loop.alpha, id_loop.beta,
                                                  adjusted_depth),
                                  !.attempts = @ + 1, !.pc = "move_loop"]
    /\ UNCHANGED <<bd, prev, played, depth, search_vars, aux_vars>>

\* one pass of the move loop of the root pv_search, in the order the move orderer yields
PvLoop ==
    /\ id_running /\ id_loop.pc = "move_loop"
    /\ id_loop.pv.todo # {}
    /\ id_loop.go
    /\ \E mv \in id_loop.pv.todo, child_score \in ChildScores, child_ponder \in PonderMoves :
          LET a == pv_loop_step(id_loop.pv, bd, mv, child_score, child_ponder)
          IN id_loop' = [id_loop EXCEPT !.pv = IF a.best_score >= a.beta
                                                THEN [a EXCEPT !.todo = {}] ELSE a]
    /\ UNCHANGED <<bd, prev, played, depth, search_vars, aux_vars>>

\* the move loop is left (no move remains, a cutoff, or keep_going is false) and
\* pv_search returns
PvReturn ==
    /\ id_running /\ id_loop.pc = "move_loop"
    /\ id_loop.pv.todo = {} \/ ~id_loop.go
    /\ LET a == IF id_loop.pv.todo # {}
                THEN [id_loop.pv EXCEPT !.legal_count = @ + 1] ELSE id_loop.pv
       IN id_loop' = [id_loop EXCEPT !.result = pv_result(a, bd),
                                     !.result_window = a.window,
                                     !.result_forwarded = a.forwarded,
                                     !.interrupted = ~id_loop.go,
                                     !.pv = [no_activation EXCEPT !.ponder = a.ponder],
                                     !.pc = "returned"]
    /\ UNCHANGED <<bd, prev, played, depth, search_vars, aux_vars>>

\* the code after the call: stop test, aspiration window update, or publication
IdAfterSearch ==
    /\ id_running /\ id_loop.pc = "returned"
    /\ id_loop' = id_after_search(id_loop, id_loop.result)
    /\ UNCHANGED <<bd, prev, played, depth, search_vars, aux_vars>>

\* on_iter, ++internal.depth and the loop test
IdNextIteration ==
    /\ id_running /\ id_loop.pc = "iter_end"
    /\ id_loop' = id_iteration(id_loop, id_loop.depth + 1)
    /\ UNCHANGED <<bd, prev, played, depth, search_vars, aux_vars>>

NextId == Stop \/ IdSearch \/ PvLoop \/ PvReturn \/ IdAfterSearch \/ IdNextIteration

SpecId == InitId /\ [][NextId]_vars

\* a window that contains every score a search can return
full_window(w) == w[1] < loss_score(0) /\ win_score(0) < w[2]

has_king_blast_capture(b) ==
    \E mv \in generate_moves(b, mode_all) : ~HasKing(forward(b, mv), opponent(turn(b)))

\* C13: a root pv_search with a full window that was not stopped, on a position where
\* the side to move has a legal capture whose blast contains the enemy king, returns
\* win_score at ply 0 and has called forward() on no such capture.
C13_RootBlastMateScore ==
    (/\ id_loop.pc = "returned" /\ ~id_loop.interrupted
     /\ full_window(id_loop.result_window)
     /\ has_king_blast_capture(bd))
        => /\ id_loop.result.score = win_score(0)
           /\ \A mv \in id_loop.result_forwarded : HasKing(forward(bd, mv), opponent(turn(bd)))

\* such a search has returned after it also searched a move that is no king-blast capture
C13_Witness ==
    /\ id_loop.pc = "returned" /\ ~id_loop.interrupted
    /\ full_window(id_loop.result_window)
    /\ has_king_blast_capture(bd)
    /\ id_loop.result_forwarded # {}
    /\ ~HasKing(forward(bd, id_loop.result.move), opponent(turn(bd)))

\* C14: once the stop flag is set, the published score, best move and ponder move stay
\* what they were when it was set: the result of an interrupted root pv_search is never
\* stored.
C14_StopKeepsPublished ==
    ~id_loop.go => published(id_loop) = id_loop.at_stop

\* the loop has exited after a root pv_search was interrupted whose result lay inside
\* the window and differed from the published score and best move
C14_Witness ==
    /\ id_loop.pc = "done" /\ id_loop.interrupted
    /\ id_loop.result_window[1] < id_loop.result.score
    /\ id_loop.result.score < id_loop.result_window[2]
    /\ ~is_null(id_loop.result.move)
    /\ id_loop.result.score # id_loop.score
    /\ id_loop.result.move # id_loop.best_move
    /\ ~is_null(id_loop.best_move)

(***************************************************************************)
(* Kings of the positions given to buildUpdates and NnueState::update      *)
(***************************************************************************)

\* C21: every position the search has pushed an accumulator for has both kings on the
\* board.
C21_PushedBoardsHaveBothKings ==
    \A i \in 1 .. Len(accumulatorStack_) : both_kings(accumulatorStack_[i].of)

(***************************************************************************)
(* The 'no move was iterated' returns of pv_search and q_search            *)
(***************************************************************************)

\* legal_count is incremented once per move the orderer yields, so it is 0 after the
\* loop exactly when the orderer's generation mode returns no move
pv_search_no_move(b) == both_kings(b) /\ generate_moves(b, mode_all) = {}
q_search_no_move(b) == both_kings(b) /\ generate_moves(b, mode_noisy_and_check) = {}

\* legal_count == 0 && is_check_any: return ss.loss_score()
pv_search_mated(b) == pv_search_no_move(b) /\ is_check_any(b)
q_search_mated(b) == q_search_no_move(b) /\ is_check_any(b)

\* C22: the mated score is returned through the 'no move was iterated' branch of
\* pv_search or q_search only in a position without any legal move.
C22_MatedOnlyWithoutLegalMove ==
    (pv_search_mated(bd) \/ q_search_mated(bd)) => generate_moves(bd, mode_all) = {}

(***************************************************************************)
(* Refresh table                                                           *)
(***************************************************************************)

\* a king square of the bucket: featureIndex reads the king square only through getBucket
bucket_king(c, bucket) == CHOOSE sq \in BucketCorners : getBucket(c, sq) = bucket

\* C24: in every entry of the refresh table and for each perspective, the cached
\* accumulator half is the biases plus the feature columns of exactly the pieces in the
\* entry's cached bitboards for that perspective.
C24_TableEntryMatchesCache ==
    \A bucket \in 0 .. BucketCount - 1, c \in Colors :
        refreshTable_[bucket].accumulator[c]
            = resetAccumulator(biases, c, refreshTable_[bucket].bbs[c], bucket_king(c, bucket))

\* an entry that caches a non-empty position which is no longer on the accumulator stack:
\* it was written by an update whose accumulator has been popped since
C24_Witness ==
    /\ Len(ss) >= 1
    /\ \E bucket \in 0 .. BucketCount - 1, c \in Colors :
          /\ refreshTable_[bucket].bbs[c] # empty_bbs
          /\ refreshTable_[bucket].accumulator[c] # biases
          /\ \A i \in 1 .. Len(accumulatorStack_) :
                from_board(accumulatorStack_[i].of) # refreshTable_[bucket].bbs[c]

(***************************************************************************)
(* NnueState driven through its interface: reset, update<Push>, pop        *)
(***************************************************************************)
StackSize == 256
MaxCurr == 2
MaxNnueOps == 4
nullptr == -1

NnueRoots == {RootCastle, RootPromotion}

\* a slot of accumulatorStack_ nothing has been written to since resize()
blank == [accumulator |-> [c \in Colors |-> biases], of |-> <<>>]

\* a pop that decrements without looking at the index
pop_unguarded(curr) == curr - 1

\* NnueState::pop
pop(curr) == IF curr > 0 THEN curr - 1 ELSE curr

\* NnueState(): accumulatorStack_.resize(256), curr_ is null, the table is not initialised
\* before the first reset
InitNnue ==
    /\ bd \in NnueRoots
    /\ prev = bd
    /\ played = null
    /\ depth = 0
    /\ ss = <<>>
    /\ accumulatorStack_ = [i \in 0 .. StackSize - 1 |-> blank]
    /\ curr_ = nullptr
    /\ refreshTable_ = init_table
    /\ last_update = [op |-> "NnueState", from |-> nullptr]
    /\ id_loop = <<>>
    /\ go = TRUE
    /\ tt = <<>>
    /\ writer_ = <<>>
    /\ dedup_ = <<>>
    /\ threads = <<>>
    /\ game = <<>>

\* reset(bd)
NnueReset ==
    /\ depth < MaxNnueOps
    /\ \E b \in NnueRoots :
          /\ accumulatorStack_' =
                [accumulatorStack_ EXCEPT ![0] = [accumulator |-> reset(b).accumulator, of |-> b]]
          /\ refreshTable_' = reset(b).table
          /\ bd' = b
    /\ curr_' = 0
    /\ last_update' = [op |-> "reset", from |-> curr_]
    /\ depth' = depth + 1
    /\ UNCHANGED <<prev, played, ss, id_loop, store_vars, datagen_vars>>

\* update<Push>(buildUpdates(bd, after), after) for the successor of a legal move
NnueUpdate(Push) ==
    LET next == IF Push THEN curr_ + 1 ELSE curr_
    IN /\ depth < MaxNnueOps
       /\ next <= MaxCurr
       /\ \E mv \in generate_moves(bd, mode_all) :
             LET after == forward(bd, mv)
                 updates == buildUpdates(bd, after, KingSq(bd, black), KingSq(bd, white),
                                         KingSq(after, black), KingSq(after, white))
                 result == update(accumulatorStack_[curr_].accumulator, refreshTable_, updates,
                                  after, KingSq(after, black), KingSq(after, white))
             IN /\ both_kings(after)
                /\ accumulatorStack_' =
                       [accumulatorStack_ EXCEPT ![next] =
                           [accumulator |-> result.accumulator, of |-> after]]
                /\ refreshTable_' = result.table
                /\ bd' = after
       /\ curr_' = next
       /\ last_update' = [op |-> IF Push THEN "update<true>" ELSE "update<false>", from |-> curr_]
       /\ depth' = depth + 1
       /\ UNCHANGED <<prev, played, ss, id_loop, store_vars, datagen_vars>>

\* assert(curr_ != nullptr)
NnueUpdatePush ==
    /\ curr_ # nullptr
    /\ NnueUpdate(TRUE)

NnueUpdateInPlace ==
    /\ curr_ # nullptr
    /\ NnueUpdate(FALSE)

\* pop()
NnuePop ==
    /\ depth < MaxNnueOps
    /\ curr_ # nullptr
    /\ curr_' = pop(curr_)
    /\ bd' = IF curr_' = nullptr THEN bd ELSE accumulatorStack_[curr_'].of
    /\ last_update' = [op |-> "pop", from |-> curr_]
    /\ depth' = depth + 1
    /\ UNCHANGED <<prev, played, ss, accumulatorStack_, refreshTable_, id_loop, store_vars,
                   datagen_vars>>

NextNnue == NnueReset \/ NnueUpdatePush \/ NnueUpdateInPlace \/ NnuePop

SpecNnue == InitNnue /\ [][NextNnue]_vars

\* C25: update<true> writes slot curr_ + 1 and advances curr_ by one, leaving the slots up
\* to the old index unchanged; update<false> overwrites only the current slot and keeps
\* the index; pop decrements the index and does nothing at index 0; the stack keeps its
\* 256 slots.
C25_StackFrameEffect ==
    [][LET op == last_update'.op
       IN /\ DOMAIN accumulatorStack_' = 0 .. StackSize - 1
          /\ op = "update<true>" =>
                /\ curr_' = curr_ + 1
                /\ accumulatorStack_'[curr_'].of = bd'
                /\ \A i \in 0 .. StackSize - 1 :
                      i # curr_ + 1 => accumulatorStack_'[i] = accumulatorStack_[i]
          /\ op = "update<false>" =>
                /\ curr_' = curr_
                /\ accumulatorStack_'[curr_].of = bd'
                /\ \A i \in 0 .. StackSize - 1 :
                      i # curr_ => accumulatorStack_'[i] = accumulatorStack_[i]
          /\ op = "pop" =>
                /\ curr_' = (IF curr_ = 0 THEN 0 ELSE curr_ - 1)
                /\ accumulatorStack_' = accumulatorStack_]_vars

\* pop has been called at index 0 after slot 1 had been written by a push for another
\* position
C25_Witness ==
    /\ curr_ = 0
    /\ last_update = [op |-> "pop", from |-> 0]
    /\ accumulatorStack_[1] # blank
    /\ accumulatorStack_[1].of # accumulatorStack_[0].of

(***************************************************************************)
(* Size of the updates buildUpdates produces                               *)
(***************************************************************************)

\* k7/8/3nqb2/3bnr2/2NBRN2/8/8/7K w - - 0 1: c4xe5 explodes eight pieces around e5
RootCrowded ==
    Position({<<white, king, S(8, 1)>>, <<white, knight, S(3, 4)>>, <<white, bishop, S(4, 4)>>,
              <<white, rook, S(5, 4)>>, <<white, knight, S(6, 4)>>,
              <<black, king, S(1, 8)>>, <<black, knight, S(5, 5)>>, <<black, bishop, S(4, 5)>>,
              <<black, rook, S(6, 5)>>, <<black, knight, S(4, 6)>>, <<black, queen, S(5, 6)>>,
              <<black, bishop, S(6, 6)>>},
             white, NoRights, NoRights)

\* 8/3p4/2k5/4P3/8/8/8/6K1 b - - 0 1: after d7d5 the only capture is e5xd6 en passant
RootEpBlast ==
    Position({<<white, king, S(7, 1)>>, <<white, pawn, S(5, 5)>>,
              <<black, king, S(3, 6)>>, <<black, pawn, S(4, 7)>>},
             black, NoRights, NoRights)

UpdateRoots == {RootCrowded, RootPromotion, RootEnPassant, RootCastle, RootEpBlast}

InitUpdates ==
    /\ bd \in UpdateRoots
    /\ prev = bd
    /\ played = null
    /\ depth = 0
    /\ ss = <<>>
    /\ accumulatorStack_ = <<>>
    /\ refreshTable_ = <<>>
    /\ last_update = no_update
    /\ id_loop = <<>>
    /\ aux_idle

SpecUpdates == InitUpdates /\ [][Play]_vars

\* buildUpdates(prev, bd) for the move just played
played_updates ==
    buildUpdates(prev, bd, KingSq(prev, black), KingSq(prev, white),
                 KingSq(bd, black), KingSq(bd, white))

\* C26: for a legal move between two positions that both have both kings, buildUpdates
\* yields at most MaxSubs removals and at most MaxAdds additions.
C26_UpdatesFitCapacity ==
    (depth > 0 /\ both_kings(prev) /\ both_kings(bd)) =>
        /\ Len(played_updates.sub) <= MaxSubs
        /\ Len(played_updates.add) <= MaxAdds

\* a capture whose blast is fully occupied: the capturing piece, the captured piece and
\* eight neighbours leave the board and nothing is added
C26_Witness ==
    /\ depth > 0 /\ both_kings(prev) /\ both_kings(bd)
    /\ played.is_capture
    /\ Len(played_updates.sub) = 10
    /\ Len(played_updates.add) = 0

(***************************************************************************)
(* has_atomic_blast_capture against the generated moves                    *)
(***************************************************************************)

king_blast_moves(b) == {mv \in generate_moves(b, mode_all) : is_atomic_king_blast_capture(b, mv)}

\* C27: in a position with both kings, has_atomic_blast_capture() holds exactly when
\* generate_moves(all) contains a king-blast capture.
C27_BlastCaptureIffGenerated ==
    both_kings(bd) => (has_atomic_blast_capture(bd) <=> king_blast_moves(bd) # {})

(* ---------------------------------------------------------------------- *)
(* training data generation: tools/atomic_data_writer.h and                *)
(* tools/atomic_data_generator.h                                           *)
(* ---------------------------------------------------------------------- *)
engine_vars == <<bd, prev, played, depth, search_vars, id_loop, curr_, store_vars>>

\* the engine is not part of the state of the writer and of the cache
engine_idle ==
    /\ bd = <<>>
    /\ prev = <<>>
    /\ played = <<>>
    /\ depth = 0
    /\ ss = <<>>
    /\ accumulatorStack_ = <<>>
    /\ refreshTable_ = <<>>
    /\ last_update = <<>>
    /\ id_loop = <<>>
    /\ curr_ = 0
    /\ go = TRUE
    /\ tt = <<>>

(***************************************************************************)
(* atomic_data_writer under concurrent generator threads                   *)
(***************************************************************************)
Concurrency == 2
MaxTotal == 3
MaxBlock == 2
Threads == 1 .. Concurrency
unlocked == 0

\* a lock that is granted whoever holds the mutex
can_lock_anyway(mutex, t) == TRUE

\* std::lock_guard<std::mutex>: the constructor returns once no thread holds the mutex
can_lock(mutex, t) == mutex = unlocked

\* atomic_data_writer(path, total); generate() starts concurrency_ threads at the test
\* of their while loop
InitWriter ==
    /\ engine_idle
    /\ \E total \in 0 .. MaxTotal :
          writer_ = [total_ |-> total, completed_ |-> 0, file_ |-> 0, writer_mutex_ |-> unlocked]
    /\ threads = [t \in Threads |-> [pc |-> "is_complete", block |-> 0, wrote |-> 0,
                                     complete_at |-> -1]]
    /\ dedup_ = <<>>
    /\ game = <<>>

\* while (!writer_.is_complete()): the test runs under the mutex
IsComplete(t) ==
    /\ threads[t].pc = "is_complete"
    /\ can_lock(writer_.writer_mutex_, t)
    /\ threads' = [threads EXCEPT ![t] =
          IF writer_.completed_ >= writer_.total_
          THEN [@ EXCEPT !.pc = "joined", !.complete_at = writer_.file_]
          ELSE [@ EXCEPT !.pc = "generate"]]
    /\ UNCHANGED <<writer_, dedup_, game, engine_vars>>

\* one self-play game fills the block
Generate(t) ==
    /\ threads[t].pc = "generate"
    /\ \E n \in 0 .. MaxBlock :
          threads' = [threads EXCEPT ![t] = [@ EXCEPT !.pc = "write_block", !.block = n]]
    /\ UNCHANGED <<writer_, dedup_, game, engine_vars>>

\* write_block: std::lock_guard lck(writer_mutex_)
WriteBlockLock(t) ==
    /\ threads[t].pc = "write_block"
    /\ can_lock(writer_.writer_mutex_, t)
    /\ writer_' = [writer_ EXCEPT !.writer_mutex_ = t]
    /\ threads' = [threads EXCEPT ![t] = [@ EXCEPT !.pc = "for"]]
    /\ UNCHANGED <<dedup_, game, engine_vars>>

\* for (elem : data) { if (completed_ >= total_) break;
WriteBlockTest(t) ==
    /\ threads[t].pc = "for"
    /\ threads' = [threads EXCEPT ![t] =
          [@ EXCEPT !.pc = IF threads[t].block = 0 \/ writer_.completed_ >= writer_.total_
                           THEN "return" ELSE "write"]]
    /\ UNCHANGED <<writer_, dedup_, game, engine_vars>>

\* file_.write(...); ++completed_; }
WriteBlockRecord(t) ==
    /\ threads[t].pc = "write"
    /\ writer_' = [writer_ EXCEPT !.file_ = @ + 1, !.completed_ = @ + 1]
    /\ threads' = [threads EXCEPT ![t] =
          [@ EXCEPT !.pc = "for", !.block = @ - 1, !.wrote = @ + 1]]
    /\ UNCHANGED <<dedup_, game, engine_vars>>

\* the progress report and the end of write_block release the mutex
WriteBlockReturn(t) ==
    /\ threads[t].pc = "return"
    /\ writer_' = [writer_ EXCEPT !.writer_mutex_ =
                      IF @ = t THEN unlocked ELSE @]
    /\ threads' = [threads EXCEPT ![t] = [@ EXCEPT !.pc = "is_complete"]]
    /\ UNCHANGED <<dedup_, game, engine_vars>>

NextWriter ==
    \E t \in Threads :
        \/ IsComplete(t) \/ Generate(t) \/ WriteBlockLock(t) \/ WriteBlockTest(t)
        \/ WriteBlockRecord(t) \/ WriteBlockReturn(t)

SpecWriter == InitWriter /\ [][NextWriter]_vars

\* C28: under every interleaving of the generator threads the writer never writes more
\* than total_ records, completed_ never exceeds total_, and no record is written after a
\* thread has seen is_complete() return true.
C28_NeverMoreThanTotal ==
    /\ writer_.file_ <= writer_.total_
    /\ writer_.completed_ <= writer_.total_
    /\ \A t \in Threads : threads[t].pc = "joined" => threads[t].complete_at = writer_.file_

\* a block cut short at the total (entries of it are left over) after both threads have
\* written records
C28_Witness ==
    /\ \E t \in Threads : threads[t].pc = "return" /\ threads[t].block > 0
    /\ \A t \in Threads : threads[t].wrote > 0
    /\ writer_.completed_ = writer_.total_
    /\ \E t \in Threads : threads[t].pc = "joined"

(***************************************************************************)
(* dedup_cache under concurrent accept calls                               *)
(***************************************************************************)
MaxCapacity == 2
MaxKeys == 3
MaxCalls == 4
Keys == 1 .. MaxKeys

Range(seq) == {seq[i] : i \in DOMAIN seq}
\* the last n elements of seq
Recent(seq, n) == SubSeq(seq, IF Len(seq) > n THEN Len(seq) - n + 1 ELSE 1, Len(seq))

\* an eviction that drops the newest key instead of the oldest
evict_newest(order, seen, capacity) ==
    IF Len(order) > capacity
    THEN [order_ |-> SubSeq(order, 1, Len(order) - 1), seen_ |-> seen \ {order[Len(order)]}]
    ELSE [order_ |-> order, seen_ |-> seen]

\* if (order_.size() > capacity_) { old = order_.front(); order_.pop_front(); seen_.erase(old); }
evict(order, seen, capacity) ==
    IF Len(order) > capacity
    THEN [order_ |-> Tail(order), seen_ |-> seen \ {Head(order)}]
    ELSE [order_ |-> order, seen_ |-> seen]

\* dedup_cache(capacity); accepted_ is the history of the keys accept() returned true for
InitDedup ==
    /\ engine_idle
    /\ \E capacity \in 0 .. MaxCapacity :
          dedup_ = [capacity_ |-> capacity, seen_ |-> {}, order_ |-> <<>>, mutex_ |-> unlocked,
                    accepted_ |-> <<>>, calls |-> 0]
    /\ threads = [t \in Threads |-> [pc |-> "idle", key |-> 0, result |-> TRUE]]
    /\ writer_ = <<>>
    /\ game = <<>>

\* accept(key): if (capacity_ == 0) return true;
AcceptCall(t) ==
    /\ threads[t].pc = "idle"
    /\ dedup_.calls < MaxCalls
    /\ \E key \in Keys :
          /\ threads' = [threads EXCEPT ![t] =
                [pc |-> IF dedup_.capacity_ = 0 THEN "idle" ELSE "lock", key |-> key,
                 result |-> TRUE]]
          /\ dedup_' = [dedup_ EXCEPT !.calls = @ + 1,
                                      !.accepted_ = IF dedup_.capacity_ = 0
                                                    THEN Append(@, key) ELSE @]
    /\ UNCHANGED <<writer_, game, engine_vars>>

\* std::lock_guard lck(mutex_)
AcceptLock(t) ==
    /\ threads[t].pc = "lock"
    /\ can_lock(dedup_.mutex_, t)
    /\ dedup_' = [dedup_ EXCEPT !.mutex_ = t]
    /\ threads' = [threads EXCEPT ![t] = [@ EXCEPT !.pc = "find"]]
    /\ UNCHANGED <<writer_, game, engine_vars>>

\* if (seen_.find(key) != seen_.end()) return false;
AcceptFind(t) ==
    /\ threads[t].pc = "find"
    /\ threads' = [threads EXCEPT ![t] =
          IF threads[t].key \in dedup_.seen_
          THEN [@ EXCEPT !.pc = "return", !.result = FALSE]
          ELSE [@ EXCEPT !.pc = "insert"]]
    /\ UNCHANGED <<dedup_, writer_, game, engine_vars>>

\* seen_.insert(key); order_.push_back(key);
AcceptInsert(t) ==
    /\ threads[t].pc = "insert"
    /\ dedup_' = [dedup_ EXCEPT !.seen_ = @ \cup {threads[t].key},
                                !.order_ = Append(@, threads[t].key),
                                !.accepted_ = Append(@, threads[t].key)]
    /\ threads' = [threads EXCEPT ![t] = [@ EXCEPT !.pc = "evict"]]
    /\ UNCHANGED <<writer_, game, engine_vars>>

\* the eviction of the oldest key; return true
AcceptEvict(t) ==
    /\ threads[t].pc = "evict"
    /\ LET kept == evict(dedup_.order_, dedup_.seen_, dedup_.capacity_)
       IN dedup_' = [dedup_ EXCEPT !.seen_ = kept.seen_, !.order_ = kept.order_]
    /\ threads' = [threads EXCEPT ![t] = [@ EXCEPT !.pc = "return", !.result = TRUE]]
    /\ UNCHANGED <<writer_, game, engine_vars>>

\* the lock_guard is released when accept returns
AcceptReturn(t) ==
    /\ threads[t].pc = "return"
    /\ dedup_' = [dedup_ EXCEPT !.mutex_ = IF @ = t THEN unlocked ELSE @]
    /\ threads' = [threads EXCEPT ![t] = [@ EXCEPT !.pc = "idle"]]
    /\ UNCHANGED <<writer_, game, engine_vars>>

NextDedup ==
    \E t \in Threads :
        \/ AcceptCall(t) \/ AcceptLock(t) \/ AcceptFind(t) \/ AcceptInsert(t)
        \/ AcceptEvict(t) \/ AcceptReturn(t)

SpecDedup == InitDedup /\ [][NextDedup]_vars

\* C29: with capacity N > 0, an accept call returns false exactly when its key is among
\* the N most recently accepted keys; between calls seen_ and order_ hold the same keys,
\* which are those N most recently accepted keys, at most N of them; with capacity 0
\* every key is accepted.
C29_FifoWindow ==
    LET N == dedup_.capacity_
    IN /\ N = 0 => \A t \in Threads : threads[t].result
       /\ \A t \in Threads :
             threads[t].pc = "return" =>
                 (~threads[t].result <=>
                     threads[t].key \in Range(Recent(IF threads[t].result
                                                     THEN SubSeq(dedup_.accepted_, 1,
                                                                 Len(dedup_.accepted_) - 1)
                                                     ELSE dedup_.accepted_, N)))
       /\ (N > 0 /\ \A t \in Threads : threads[t].pc \in {"idle", "lock", "return"}) =>
             /\ Range(dedup_.order_) = dedup_.seen_
             /\ Len(dedup_.order_) <= N
             /\ dedup_.order_ = Recent(dedup_.accepted_, N)

\* a key that was accepted, evicted by later keys and then accepted again, while the other
\* thread is inside an accept call of its own
C29_Witness ==
    /\ dedup_.capacity_ > 0
    /\ Len(dedup_.accepted_) > dedup_.capacity_ + 1
    /\ \E t \in Threads :
          /\ threads[t].pc = "return" /\ threads[t].result
          /\ threads[t].key \in Range(SubSeq(dedup_.accepted_, 1, Len(dedup_.accepted_) - 1))
          /\ \E u \in Threads \ {t} : threads[u].pc = "lock"

(***************************************************************************)
(* the result of a self-play game of the data generator                    *)
(***************************************************************************)
ply_limit_ == 2
MaxRandomPly == 1
adjudication_threshold == 1000

GameRoots == {RootBlastMate, RootQuiet}

\* worker->score() after a search: below, between and above the adjudication thresholds
PovScores == {-adjudication_threshold, 0, adjudication_threshold}

\* board::sided_hash: the placement, the latent state and the side to move
sided_hash(b) == <<b.man, b.lat, turn(b)>>

mirrored_result(result) ==
    CASE result = "win" -> "loss"
      [] result = "loss" -> "win"
      [] OTHER -> "draw"

has_repetition(hist, state) == sided_hash(state) \in hist

is_terminal(hist, state) ==
    \/ has_repetition(hist, state)
    \/ ~HasKing(state, turn(state))
    \/ ~HasKing(state, opponent(turn(state)))
    \/ generate_moves(state, mode_all) = {}

get_result(hist, state) ==
    IF has_repetition(hist, state) THEN "draw"
    ELSE IF ~HasKing(state, turn(state)) THEN "loss"
    ELSE IF ~HasKing(state, opponent(turn(state))) THEN "win"
    ELSE IF generate_moves(state, mode_all) = {}
    THEN (IF is_check(state) THEN "loss" ELSE "draw")
    ELSE "draw"

get_result_with_adjudication(hist, state, final_score) ==
    LET terminal_result == get_result(hist, state)
    IN IF terminal_result # "draw" THEN terminal_result
       ELSE IF final_score >= adjudication_threshold THEN "win"
       ELSE IF final_score <= -adjudication_threshold THEN "loss"
       ELSE "draw"

outcome_from_white_result(white_result) ==
    CASE white_result = "win" -> "WhiteWin"
      [] white_result = "loss" -> "WhiteLoss"
      [] OTHER -> "Draw"

\* one generator thread at the start of a game: state = next_seed(), hist empty,
\* final_score 0, random_ply drawn; searched and white_score remember that a position was
\* searched and the white-relative score kept for the last one
InitGame ==
    /\ bd \in GameRoots
    /\ prev = bd
    /\ played = null
    /\ depth = 0
    /\ ss = <<>>
    /\ accumulatorStack_ = <<>>
    /\ refreshTable_ = <<>>
    /\ last_update = no_update
    /\ id_loop = <<>>
    /\ curr_ = 0
    /\ go = TRUE
    /\ tt = <<>>
    /\ writer_ = <<>>
    /\ dedup_ = <<>>
    /\ threads = <<>>
    /\ \E random_ply \in 0 .. MaxRandomPly :
          game = [pc |-> "for", ply |-> 0, random_ply |-> random_ply, hist |-> {},
                  final_score |-> 0, searched |-> FALSE, white_score |-> 0,
                  game_result |-> "draw", outcome |-> "Draw"]

in_game_loop == game.pc = "for" /\ game.ply <= ply_limit_ /\ ~is_terminal(game.hist, bd)

\* ply < random_ply: a uniformly drawn legal move
GameRandomPly ==
    /\ in_game_loop
    /\ game.ply < game.random_ply
    /\ \E mv \in generate_moves(bd, mode_all) :
          /\ bd' = forward(bd, mv)
          /\ played' = mv
    /\ prev' = bd
    /\ depth' = depth + 1
    /\ game' = [game EXCEPT !.ply = @ + 1, !.hist = @ \cup {sided_hash(bd)}]
    /\ UNCHANGED <<search_vars, id_loop, curr_, store_vars, writer_, dedup_, threads>>

\* a searched ply: final_score = pov_score, the entry is kept with the white-relative
\* score, and the best move is played
GameSearchPly ==
    /\ in_game_loop
    /\ game.ply >= game.random_ply
    /\ \E best_move \in generate_moves(bd, mode_all), pov_score \in PovScores :
          /\ bd' = forward(bd, best_move)
          /\ played' = best_move
          /\ game' = [game EXCEPT !.ply = @ + 1, !.hist = @ \cup {sided_hash(bd)},
                                  !.final_score = pov_score, !.searched = TRUE,
                                  !.white_score = IF turn(bd) THEN pov_score ELSE -pov_score]
    /\ prev' = bd
    /\ depth' = depth + 1
    /\ UNCHANGED <<search_vars, id_loop, curr_, store_vars, writer_, dedup_, threads>>

\* the loop is over: the result, mirrored to white, goes to write_block
GameEnd ==
    /\ game.pc = "for"
    /\ ~in_game_loop
    /\ LET game_result == get_result_with_adjudication(game.hist, bd, game.final_score)
           white_result == IF turn(bd) THEN game_result ELSE mirrored_result(game_result)
       IN game' = [game EXCEPT !.pc = "write_block", !.game_result = game_result,
                               !.outcome = outcome_from_white_result(white_result)]
    /\ UNCHANGED <<board_vars, depth, search_vars, id_loop, curr_, store_vars, writer_, dedup_,
                   threads>>

NextGame == GameRandomPly \/ GameSearchPly \/ GameEnd

SpecGameResult == InitGame /\ [][NextGame]_vars

sign(x) == IF x > 0 THEN 1 ELSE IF x < 0 THEN -1 ELSE 0
outcome_sign(outcome) ==
    CASE outcome = "WhiteWin" -> 1
      [] outcome = "WhiteLoss" -> -1
      [] OTHER -> 0

\* the game ended without a terminal result and its last search score reaches a threshold
adjudicated_by_score ==
    /\ game.pc = "write_block"
    /\ game.searched
    /\ get_result(game.hist, bd) = "draw"
    /\ ~is_terminal(game.hist, bd)
    /\ game.final_score >= adjudication_threshold \/ game.final_score <= -adjudication_threshold

\* C30: a game adjudicated by score is written with the outcome that gives the win to the
\* side whose last search score was at least the threshold, so the outcome has the sign of
\* the white-relative score kept for the last searched position.
C30_OutcomeAgreesWithScore ==
    adjudicated_by_score => outcome_sign(game.outcome) = sign(game.white_score)

(***************************************************************************)
(* the stores of pv_search and q_search: transposition table, history and  *)
(* correction history (search_worker.cc steps 14 and the end of q_search)  *)
(***************************************************************************)
MaxRootDepth == 7
MaxStoreFrames == 5
singular_extension_depth == 6
singular_search_depth(d) == d \div 2 - 1

\* one activation: the function, its depth argument, whether the stack entry of its
\* height holds an excluded move, and whether a keep_going() call of it has returned false
StoreFrame(fn, d, is_root, excluded) ==
    [fn |-> fn, depth |-> d, is_root |-> is_root, excluded |-> excluded, observed |-> FALSE]

\* depth arguments of the calls on the successors: next_depth = depth + extension - 1 with
\* extension -1 .. 2, the reduced depths below it, and the depths of the null-move and
\* ProbCut searches
ChildDepths(d) == {n \in 0 .. MaxRootDepth : n <= d + 1}

\* a store guard that only looks at the stop flag
pv_store_guard_go_only(keep_going, has_excluded) == keep_going

\* step 14: if (internal.keep_going() && !ss.has_excluded())
pv_store_guard(keep_going, has_excluded) == keep_going /\ ~has_excluded

\* end of q_search: if (use_tt && internal.keep_going())
q_store_guard(keep_going, has_excluded) == keep_going

\* iterative_deepening_loop calls pv_search<true, true> with the stop flag cleared; tt is the
\* log of the activations that reached their store step, with what they had seen and
\* whether they stored
InitStore ==
    /\ bd = <<>>
    /\ prev = <<>>
    /\ played = <<>>
    /\ depth = 0
    /\ \E d \in 1 .. MaxRootDepth : ss = <<StoreFrame("pv_search", d, TRUE, FALSE)>>
    /\ accumulatorStack_ = <<>>
    /\ refreshTable_ = <<>>
    /\ last_update = <<>>
    /\ id_loop = <<>>
    /\ curr_ = 0
    /\ go = TRUE
    /\ tt = {}
    /\ writer_ = <<>>
    /\ dedup_ = <<>>
    /\ threads = <<>>
    /\ game = <<>>

store_frame_vars == <<bd, prev, played, depth, accumulatorStack_, refreshTable_, last_update,
                      id_loop, curr_, datagen_vars>>

\* stop(): internal.go.store(false), from another thread or from a callback
StoreStop ==
    /\ go
    /\ ss # <<>>
    /\ go' = FALSE
    /\ UNCHANGED <<ss, tt, store_frame_vars>>

\* a keep_going() call of the running activation returns false (the loop heads)
StoreObserve ==
    /\ ss # <<>>
    /\ ~go /\ ~Top(ss).observed
    /\ ss' = [ss EXCEPT ![Len(ss)] = [@ EXCEPT !.observed = TRUE]]
    /\ UNCHANGED <<go, tt, store_frame_vars>>

\* pv_search step 1: depth <= 0, the result of q_search on the same stack entry is returned
StorePvQuiesce ==
    /\ ss # <<>>
    /\ Top(ss).fn = "pv_search" /\ Top(ss).depth <= 0
    /\ ss' = [ss EXCEPT ![Len(ss)] = StoreFrame("q_search", 0, FALSE, Top(ss).excluded)]
    /\ UNCHANGED <<go, tt, store_frame_vars>>

\* razoring: q_search on the same stack entry
StoreRazor ==
    /\ ss # <<>> /\ Len(ss) < MaxStoreFrames
    /\ Top(ss).fn = "pv_search" /\ Top(ss).depth > 0
    /\ ~Top(ss).is_root /\ ~Top(ss).excluded /\ ~Top(ss).observed
    /\ ss' = Append(ss, StoreFrame("q_search", 0, FALSE, Top(ss).excluded))
    /\ UNCHANGED <<go, tt, store_frame_vars>>

\* null move, ProbCut and move loop: pv_search or q_search on ss.next()
StoreChild ==
    /\ ss # <<>> /\ Len(ss) < MaxStoreFrames
    /\ Top(ss).fn = "pv_search" /\ Top(ss).depth > 0
    /\ ~Top(ss).observed
    /\ \E d \in ChildDepths(Top(ss).depth), fn \in {"pv_search", "q_search"} :
          ss' = Append(ss, StoreFrame(fn, IF fn = "q_search" THEN 0 ELSE d, FALSE, FALSE))
    /\ UNCHANGED <<go, tt, store_frame_vars>>

\* singular extension: pv_search on the same stack entry with the move excluded
StoreSingular ==
    /\ ss # <<>> /\ Len(ss) < MaxStoreFrames
    /\ Top(ss).fn = "pv_search" /\ Top(ss).depth >= singular_extension_depth
    /\ ~Top(ss).is_root /\ ~Top(ss).excluded /\ ~Top(ss).observed
    /\ ss' = Append(ss, StoreFrame("pv_search", singular_search_depth(Top(ss).depth), FALSE, TRUE))
    /\ UNCHANGED <<go, tt, store_frame_vars>>

\* the loops of q_search: q_search on ss.next()
StoreQChild ==
    /\ ss # <<>> /\ Len(ss) < MaxStoreFrames
    /\ Top(ss).fn = "q_search"
    /\ ~Top(ss).observed
    /\ ss' = Append(ss, StoreFrame("q_search", 0, FALSE, FALSE))
    /\ UNCHANGED <<go, tt, store_frame_vars>>

\* a return before the store step: draws, table cutoffs, pruning, no move iterated
StoreEarlyReturn ==
    /\ ss # <<>>
    /\ Top(ss).fn = "q_search" \/ Top(ss).depth > 0
    /\ ss' = Pop(ss)
    /\ UNCHANGED <<go, tt, store_frame_vars>>

\* the store step and the return after it
StoreReturn ==
    /\ ss # <<>>
    /\ Top(ss).fn = "q_search" \/ Top(ss).depth > 0
    /\ LET f == Top(ss)
           stored == IF f.fn = "pv_search" THEN pv_store_guard(go, f.excluded)
                     ELSE q_store_guard(go, f.excluded)
       IN tt' = tt \cup {[fn |-> f.fn, excluded |-> f.excluded, observed |-> f.observed \/ ~go,
                          stored |-> stored]}
    /\ ss' = Pop(ss)
    /\ UNCHANGED <<go, store_frame_vars>>

NextStore ==
    \/ StoreStop \/ StoreObserve \/ StorePvQuiesce \/ StoreRazor \/ StoreChild \/ StoreSingular
    \/ StoreQChild \/ StoreEarlyReturn \/ StoreReturn

SpecStore == InitStore /\ [][NextStore]_vars

\* C23: an activation of pv_search or q_search that has seen the stop flag set, or that
\* runs on a stack entry with an excluded move, stores nothing.
C23_NoStoreAfterStopOrExcluded ==
    \A w \in tt : (w.observed \/ w.excluded) => ~w.stored

\* a singular search and an activation that saw the stop flag have reached their store
\* step, and an undisturbed activation has stored
C23_Witness ==
    /\ \E w \in tt : w.fn = "pv_search" /\ w.excluded /\ ~w.observed /\ ~w.stored
    /\ \E w \in tt : w.fn = "q_search" /\ w.observed /\ ~w.stored
    /\ \E w \in tt : w.fn = "pv_search" /\ w.observed /\ ~w.excluded /\ ~w.stored
    /\ \E w \in tt : w.stored

====
